---- MODULE Spec2Model ----
(***************************************************************************)
(* Bipartite matching engine of 02-matching-project:                       *)
(*   src/models/entities.py        Entity, Criteria, Match, MatchingResult *)
(*   src/algorithms/hungarian.py   HungarianMatcher                        *)
(*   src/algorithms/gale_shapley.py GaleShapleyMatcher                     *)
(* One behaviour is one call of match() on one pair of entity lists and    *)
(* one Criteria.  Real numbers are exact rationals <<num, den>>, den > 0,  *)
(* in lowest terms; +infinity (numpy.inf) is <<1, 0>>.                     *)
(* The pipeline agent of 03-engineering-pipeline-agent                      *)
(* (agents/orchestrator_agent.py) is modelled next to it, on variables of  *)
(* its own.                                                                *)
(***************************************************************************)
EXTENDS Integers, Sequences, FiniteSets, TLC

\* Largest number of entities on the a side / the b side of a call.
MaxA == 3
MaxB == 2

\* Largest number of execute_pipeline calls on one agent.
MaxCalls == 2

\* The literal normalisation scale of numeric attributes.
max_diff == 100
gs_max_diff == 100

(***************************************************************************)
(* Exact rational arithmetic (Python floats, without rounding).            *)
(***************************************************************************)
Abs(x) == IF x < 0 THEN -x ELSE x

RECURSIVE GCD(_, _)
GCD(a, b) == IF b = 0 THEN a ELSE GCD(b, a % b)

Rat(n, d) ==
    LET g == GCD(Abs(n), Abs(d))
        sgn == IF d < 0 THEN -1 ELSE 1
    IN  IF g = 0 THEN <<0, 1>> ELSE <<sgn * (n \div g), sgn * (d \div g)>>

Zero == <<0, 1>>
One == <<1, 1>>
Half == <<1, 2>>
INF == <<1, 0>>

IsInf(x) == x[2] = 0
RAdd(x, y) == Rat(x[1] * y[2] + y[1] * x[2], x[2] * y[2])
RMul(x, y) == Rat(x[1] * y[1], x[2] * y[2])
RNeg(x) == <<-x[1], x[2]>>
RLt(x, y) == x[1] * y[2] < y[1] * x[2]
RLeq(x, y) == x[1] * y[2] <= y[1] * x[2]
RMax(x, y) == IF RLt(x, y) THEN y ELSE x

\* x / k for an integer k > 0.
RDiv(x, k) == Rat(x[1], x[2] * k)

RECURSIVE RSum(_, _)
\* Sum of f[1..k], a sequence (or function on 1..k) of rationals.
RSum(f, k) == IF k = 0 THEN Zero ELSE RAdd(RSum(f, k - 1), f[k])

(***************************************************************************)
(* Attribute values: Dict[str, Any].  A value is a number, a text (a       *)
(* sequence of characters), a list of texts, None, or not in the dict.     *)
(***************************************************************************)
AttrNames == <<"exp", "skill">>
AttrSet == {AttrNames[i] : i \in 1..Len(AttrNames)}

None == [t |-> "none", n |-> 0, s |-> <<>>, l |-> <<>>]
Missing == [t |-> "missing", n |-> 0, s |-> <<>>, l |-> <<>>]
Num(x) == [t |-> "num", n |-> x, s |-> <<>>, l |-> <<>>]
Str(x) == [t |-> "str", n |-> 0, s |-> x, l |-> <<>>]
List(x) == [t |-> "list", n |-> 0, s |-> <<>>, l |-> x]

\* str.lower(): an upper-case letter becomes its lower-case letter, every
\* other character stays.
UpperLetters == <<"A", "B", "C", "D", "E", "F", "G", "H", "I", "J", "K", "L", "M",
                  "N", "O", "P", "Q", "R", "S", "T", "U", "V", "W", "X", "Y", "Z">>
LowerLetters == <<"a", "b", "c", "d", "e", "f", "g", "h", "i", "j", "k", "l", "m",
                  "n", "o", "p", "q", "r", "s", "t", "u", "v", "w", "x", "y", "z">>
LowerChar(c) ==
    IF \E i \in 1..Len(UpperLetters) : UpperLetters[i] = c
    THEN LowerLetters[CHOOSE i \in 1..Len(UpperLetters) : UpperLetters[i] = c]
    ELSE c
Lower(s) == [i \in 1..Len(s) |-> LowerChar(s[i])]

\* Python's `s in t` for two texts.
IsSubstring(s, t) ==
    /\ Len(s) <= Len(t)
    /\ \E i \in 0..(Len(t) - Len(s)) : SubSeq(t, i + 1, i + Len(s)) = s

\* Python truthiness of a value (None, 0, "" and [] are falsy).
Truthy(v) ==
    CASE v.t = "num" -> v.n # 0
      [] v.t = "str" -> v.s # <<>>
      [] v.t = "list" -> v.l # <<>>
      [] OTHER -> FALSE

\* Entity.get_attribute: dict.get(key, None).
get_attribute(e, key) == IF e.attributes[key].t = "missing" THEN None ELSE e.attributes[key]

\* `key in entity.attributes`.
HasAttribute(e, key) == e.attributes[key].t # "missing"

(***************************************************************************)
(* Criteria.                                                               *)
(***************************************************************************)
\* Mutant: the weights are stored as supplied.
MakeCriteria_NoNormalize(raw, keys, required, min_score) ==
    [keys |-> keys,
     weights |-> [a \in AttrSet |-> IF a \in keys THEN <<raw[a], 1>> ELSE Zero],
     required_attributes |-> required,
     min_score |-> min_score]

\* __post_init__: weights are divided by their sum when the sum is positive.
\* raw maps every attribute name to a natural; keys is the dict's key set.
MakeCriteria(raw, keys, required, min_score) ==
    LET w(i) == IF AttrNames[i] \in keys THEN <<raw[AttrNames[i]], 1>> ELSE Zero
        total_weight == RSum([i \in 1..Len(AttrNames) |-> w(i)], Len(AttrNames))
    IN  [keys |-> keys,
         weights |-> [a \in AttrSet |->
                        IF a \notin keys THEN Zero
                        ELSE IF RLt(Zero, total_weight)
                             THEN Rat(raw[a] * total_weight[2], total_weight[1])
                             ELSE <<raw[a], 1>>],
         required_attributes |-> required,
         min_score |-> min_score]

\* Criteria.calculate_weighted_score over the scores of the weighted keys.
\* scores maps every attribute name to its score; only keys of the scores
\* dict (the keys of weights) are summed.
calculate_weighted_score(c, scores) ==
    RSum([i \in 1..Len(AttrNames) |->
            IF AttrNames[i] \in c.keys
            THEN RMul(c.weights[AttrNames[i]], scores[AttrNames[i]])
            ELSE Zero], Len(AttrNames))

MissingRequired(c, ea, eb) ==
    \E r \in c.required_attributes : ~HasAttribute(ea, r) \/ ~HasAttribute(eb, r)

(***************************************************************************)
(* Match and MatchingResult.  A Match is [entity_a_id, entity_b_id, score] *)
(* (details and matched_at are not modelled); a MatchingResult is its      *)
(* matches, unmatched_entities and total_score (execution_time, a clock    *)
(* reading, is not modelled).                                              *)
(***************************************************************************)
\* The None that get_match_for_entity returns.
NoMatch == [entity_a_id |-> "", entity_b_id |-> "", score |-> Zero]

\* MatchingResult.get_match_for_entity: the first match with the id on
\* either side.
get_match_for_entity(ms, entity_id) ==
    IF \E k \in 1..Len(ms) : ms[k].entity_a_id = entity_id \/ ms[k].entity_b_id = entity_id
    THEN ms[CHOOSE k \in 1..Len(ms) :
                /\ ms[k].entity_a_id = entity_id \/ ms[k].entity_b_id = entity_id
                /\ \A l \in 1..(k - 1) :
                      ms[l].entity_a_id # entity_id /\ ms[l].entity_b_id # entity_id]
    ELSE NoMatch

\* sum(m.score for m in self.matches)
SumOfScores(ms) == RSum([k \in 1..Len(ms) |-> ms[k].score], Len(ms))

\* Mutant: the average is taken over the matched and the unmatched.
get_statistics_OverAll(ms, unmatched, total) ==
    [total_matches |-> Len(ms),
     unmatched_count |-> Len(unmatched),
     average_score |-> IF ms # <<>> THEN RDiv(SumOfScores(ms), Len(ms) + Len(unmatched))
                       ELSE Zero,
     total_score |-> total]

\* MatchingResult.get_statistics (without execution_time_seconds).
get_statistics(ms, unmatched, total) ==
    [total_matches |-> Len(ms),
     unmatched_count |-> Len(unmatched),
     average_score |-> IF ms # <<>> THEN RDiv(SumOfScores(ms), Len(ms)) ELSE Zero,
     total_score |-> total]

(***************************************************************************)
(* HungarianMatcher scorer.                                                *)
(***************************************************************************)
\* Mutant: the difference is not clamped at 0.
NumericScore_NoClamp(a, b, scale) == Rat(scale - Abs(a - b), scale)

\* Mutant: the difference is measured against twice the scale.
NumericScore_DoubleScale(a, b, scale) == RMax(Zero, Rat(2 * scale - Abs(a - b), 2 * scale))

\* max(0.0, 1.0 - (diff / max_diff))
NumericScore(a, b, scale) == RMax(Zero, Rat(scale - Abs(a - b), scale))

LowerSet(l) == {Lower(l[i]) : i \in 1..Len(l)}

H_compare_attribute(va, vb) ==
    IF va.t = "none" \/ vb.t = "none" THEN Zero
    ELSE IF va.t = "num" /\ vb.t = "num" THEN NumericScore(va.n, vb.n, max_diff)
    ELSE IF va.t = "str" /\ vb.t = "str" THEN
        IF Lower(va.s) = Lower(vb.s) THEN One
        ELSE IF IsSubstring(Lower(va.s), Lower(vb.s)) \/ IsSubstring(Lower(vb.s), Lower(va.s))
             THEN Half
             ELSE Zero
    ELSE IF va.t = "list" /\ vb.t = "list" THEN
        IF LowerSet(va.l) = {} \/ LowerSet(vb.l) = {} THEN Zero
        ELSE Rat(Cardinality(LowerSet(va.l) \cap LowerSet(vb.l)),
                 Cardinality(LowerSet(va.l) \cup LowerSet(vb.l)))
    ELSE IF va = vb THEN One ELSE Zero

H_raw_similarity(ea, eb, c) ==
    IF MissingRequired(c, ea, eb) THEN Zero
    ELSE calculate_weighted_score(c,
            [a \in AttrSet |-> H_compare_attribute(get_attribute(ea, a), get_attribute(eb, a))])

\* Mutant: an aggregate equal to min_score is zeroed too.
H_calculate_similarity_ZeroAtThreshold(ea, eb, c) ==
    LET weighted_score == H_raw_similarity(ea, eb, c)
    IN  IF RLeq(weighted_score, c.min_score) THEN Zero ELSE weighted_score

H_calculate_similarity(ea, eb, c) ==
    LET weighted_score == H_raw_similarity(ea, eb, c)
    IN  IF RLt(weighted_score, c.min_score) THEN Zero ELSE weighted_score

(***************************************************************************)
(* GaleShapleyMatcher scorer.                                              *)
(***************************************************************************)
GS_compare(va, vb) ==
    IF va = vb THEN One
    ELSE IF va.t = "num" /\ vb.t = "num" THEN NumericScore(va.n, vb.n, gs_max_diff)
    ELSE IF Truthy(va) /\ Truthy(vb) THEN Half ELSE Zero

\* Mutant: an aggregate below min_score is zeroed, as in the Hungarian scorer.
GS_calculate_similarity_Thresholded(ea, eb, c) ==
    LET weighted_score ==
            IF MissingRequired(c, ea, eb) THEN Zero
            ELSE calculate_weighted_score(c,
                    [a \in AttrSet |-> GS_compare(get_attribute(ea, a), get_attribute(eb, a))])
    IN  IF RLt(weighted_score, c.min_score) THEN Zero ELSE weighted_score

GS_calculate_similarity(ea, eb, c) ==
    IF MissingRequired(c, ea, eb) THEN Zero
    ELSE calculate_weighted_score(c,
            [a \in AttrSet |-> GS_compare(get_attribute(ea, a), get_attribute(eb, a))])

(***************************************************************************)
(* Inputs of a call.                                                       *)
(***************************************************************************)
py == <<"p", "y">>
Py == <<"P", "y">>
pyt == <<"p", "y", "t">>
sq == <<"s", "q">>

Attrs(e, s) == [a \in AttrSet |-> IF a = "exp" THEN e ELSE s]

\* Attribute dicts of the entities of calls with two or more entities on a side.
CorePool ==
    { Attrs(Num(5), Str(py)), Attrs(Num(45), Str(Py)), Attrs(Num(85), Missing) }

\* Attribute dicts of the entities of calls with at most one entity per side.
EntityPool ==
    CorePool \cup
    { Attrs(e, s) : e \in {Missing, Num(5), Num(105), Num(205)},
                    s \in {None, Str(py), Str(Py), Str(pyt), List(<<py, sq>>),
                           List(<<Py>>), List(<<>>), Num(5)} }

AIds == <<"a1", "a2", "a3", "a4", "a5">>
BIds == <<"b1", "b2", "b3", "b4", "b5">>

Weights(e, s) == [a \in AttrSet |-> IF a = "exp" THEN e ELSE s]

CriteriaPool ==
    { MakeCriteria(Weights(1, 0), {"exp"}, {}, Zero),
      MakeCriteria(Weights(1, 1), {"exp", "skill"}, {}, Zero),
      MakeCriteria(Weights(1, 1), {"exp", "skill"}, {"skill"}, Zero),
      MakeCriteria(Weights(2, 0), {"exp"}, {}, Half),
      MakeCriteria(Weights(1, 3), {"exp", "skill"}, {"skill"}, Half),
      MakeCriteria(Weights(0, 0), {"exp"}, {}, Zero),
      MakeCriteria(Weights(3, 0), {"exp"}, {}, One) }

PoolFor(n, m) == IF n <= 1 /\ m <= 1 THEN EntityPool ELSE CorePool

\* match called directly, with no HTTP request.
NoRequest ==
    [entities_a |-> <<>>, entities_b |-> <<>>, weights |-> Weights(0, 0), keys |-> {},
     required_attributes |-> {}, min_score |-> Zero, algorithm |-> <<>>]

\* The handler has not answered.
NoResponse ==
    [status_code |-> 0, detail |-> "", matches |-> <<>>, unmatched_entities |-> <<>>,
     total_score |-> Zero, statistics |-> get_statistics(<<>>, <<>>, Zero)]

\* __init__ of the two matcher classes: self.name.
Matchers ==
    [hungarian |-> [name |-> "Hungarian Algorithm"],
     gale_shapley |-> [name |-> "Gale-Shapley Algorithm"]]

\* No second call is in progress.
NoOtherCall == [pc |-> "none"]

\* No call was made before this one.
NoCall ==
    [algorithm |-> "none", outcome |-> "none", min_score |-> Zero, cost_matrix |-> <<>>,
     assignment |-> <<>>, preferences |-> <<>>, engagements |-> <<>>,
     matches |-> <<>>, unmatched_entities |-> <<>>, total_score |-> Zero]

(***************************************************************************)
(* State of one call.                                                      *)
(***************************************************************************)
VARIABLES
    entities_a,       \* List[Entity]: sequence of [id, attributes]
    entities_b,
    criteria,
    algorithm,        \* "none" | "hungarian" | "gale_shapley"
    pc,               \* "idle" | "h_built" | "h_solved" | "gs_loop" | "done"
    outcome,          \* "none" | "returned" | "raised"
    cost_matrix,      \* hungarian: padded square matrix
    assignment,       \* hungarian: col_indices of linear_sum_assignment
    preferences,      \* gale_shapley: id -> list of ids
    entity_map,       \* gale_shapley: id -> Entity
    free_proposers,   \* gale_shapley: list of ids
    engagements,      \* gale_shapley: dict in insertion order, [acceptor, proposer]
    proposer_index,   \* gale_shapley: id -> next index (0-based)
    proposed,         \* history: the proposals made so far, <<proposer, acceptor>>
    exhausted,        \* history: the proposers popped as exhausted, in order
    matches,          \* result: sequence of [entity_a_id, entity_b_id, score]
    unmatched_entities,
    total_score,
    request,          \* api: the MatchingRequest of POST /api/match (NoRequest: a direct call)
    response,         \* api: what the handler answers
    first_call,       \* history: the outcome of the call made before this one
    matcher,          \* the fields of the HungarianMatcher and the GaleShapleyMatcher object
    other_call,       \* a second call in progress on the same matchers, while suspended
    config,           \* pipeline agent: self.config
    stage_results,    \* pipeline agent: self.stage_results, a dict in insertion order
    context,          \* pipeline agent: self.context
    run,              \* pipeline agent: each call's place in execute_pipeline and its locals
    summary           \* pipeline agent: the summary each call returned

vars == <<entities_a, entities_b, criteria, algorithm, pc, outcome, cost_matrix,
          assignment, preferences, entity_map, free_proposers, engagements,
          proposer_index, proposed, exhausted, matches, unmatched_entities,
          total_score,
          request, response, first_call, matcher, other_call,
          config, stage_results, context, run, summary>>

inputs == <<entities_a, entities_b, criteria>>
h_vars == <<cost_matrix, assignment>>
gs_vars == <<preferences, entity_map, free_proposers, engagements, proposer_index, proposed,
             exhausted>>
result_vars == <<matches, unmatched_entities, total_score>>
agent_vars == <<config, stage_results, context, run, summary>>
caller_vars == <<request, response, first_call, matcher, other_call, agent_vars>>

\* list(PipelineStage)
stages == <<"source", "build", "test", "quality", "package", "deploy", "verify", "monitor">>

\* The calls of execute_pipeline on the one agent, in the order they start.
Calls == 1..MaxCalls

\* A call not made yet.  pc and index are the place of a call (index: the
\* stage of the loop, or the place of a dict iterator, which remembers the
\* size of the dict in size); result, successful_stages, failed_stages,
\* project and results are its locals; handled and alone remember what it
\* recorded and whether another call ran during it.
NoRun ==
    [pc |-> "not_called", index |-> 0, size |-> 0, result |-> "none",
     successful_stages |-> <<>>, failed_stages |-> <<>>, project |-> "", results |-> <<>>,
     handled |-> {}, alone |-> TRUE]

\* context['stages_completed'] when empty.  The list is kept as the number
\* of times each stage is in it; the order of its entries is not kept.
NoneCompleted == [s \in {stages[k] : k \in 1..Len(stages)} |-> 0]

\* No pipeline agent has been constructed.
NoAgent ==
    /\ config = [run_tests |-> TRUE, run_quality_checks |-> TRUE, stop_on_failure |-> TRUE]
    /\ stage_results = <<>>
    /\ context = [project |-> [name |-> "", branch_readable |-> TRUE], stages_completed |-> NoneCompleted]
    /\ run = [c \in Calls |-> NoRun]
    /\ summary = [c \in Calls |-> <<>>]

n_a == Len(entities_a)
n_b == Len(entities_b)

Fresh ==
    /\ algorithm = "none"
    /\ pc = "idle"
    /\ outcome = "none"
    /\ cost_matrix = <<>>
    /\ assignment = <<>>
    /\ preferences = <<>>
    /\ entity_map = <<>>
    /\ free_proposers = <<>>
    /\ engagements = <<>>
    /\ proposer_index = <<>>
    /\ proposed = <<>>
    /\ exhausted = <<>>
    /\ matches = <<>>
    /\ unmatched_entities = <<>>
    /\ total_score = Zero

Init ==
    /\ \E n \in 0..MaxA, m \in 0..MaxB :
         /\ entities_a \in { [i \in 1..n |-> [id |-> AIds[i], attributes |-> x[i]]] :
                               x \in [1..n -> PoolFor(n, m)] }
         /\ entities_b \in { [j \in 1..m |-> [id |-> BIds[j], attributes |-> x[j]]] :
                               x \in [1..m -> PoolFor(n, m)] }
    /\ criteria \in CriteriaPool
    /\ Fresh
    /\ request = NoRequest /\ response = NoResponse /\ first_call = NoCall
    /\ matcher = Matchers /\ other_call = NoOtherCall
    /\ NoAgent

\* [e.id for e in entities_a + entities_b]
AllIds == [i \in 1..(n_a + n_b) |->
             IF i <= n_a THEN entities_a[i].id ELSE entities_b[i - n_a].id]

\* Mutant: only the a-side ids are reported unmatched.
EmptyReturn_OnlyASide(alg) ==
    /\ pc = "idle"
    /\ n_a = 0 \/ n_b = 0
    /\ algorithm' = alg
    /\ matches' = <<>>
    /\ unmatched_entities' = [i \in 1..n_a |-> entities_a[i].id]
    /\ total_score' = Zero
    /\ outcome' = "returned"
    /\ pc' = "done"
    /\ UNCHANGED <<inputs, caller_vars, h_vars, gs_vars>>

\* `if not entities_a or not entities_b: return MatchingResult(...)`
EmptyReturn(alg) ==
    /\ pc = "idle"
    /\ n_a = 0 \/ n_b = 0
    /\ algorithm' = alg
    /\ matches' = <<>>
    /\ unmatched_entities' = AllIds
    /\ total_score' = Zero
    /\ outcome' = "returned"
    /\ pc' = "done"
    /\ UNCHANGED <<inputs, caller_vars, h_vars, gs_vars>>

(***************************************************************************)
(* HungarianMatcher.match                                                  *)
(* hungarian.py annotates _compare_attribute with typing.Any without       *)
(* importing it, so the module loads only where annotations are not        *)
(* evaluated at definition time; the model is of the loaded class.         *)
(***************************************************************************)
\* _calculate_cost_matrix followed by the np.hstack / np.vstack padding with
\* np.inf: cell (i, j) is -score for a real pair and +inf in the padded region.
PaddedCostMatrix(ea, eb, c) ==
    LET size == IF Len(ea) > Len(eb) THEN Len(ea) ELSE Len(eb)
    IN  [i \in 1..size |-> [j \in 1..size |->
            IF i <= Len(ea) /\ j <= Len(eb)
            THEN RNeg(H_calculate_similarity(ea[i], eb[j], c))
            ELSE INF]]

Assignments(size) ==
    { f \in [1..size -> 1..size] : \A i, j \in 1..size : f[i] = f[j] => i = j }

\* Cost of the complete assignment row i -> column f[i]; INF when it uses an
\* infinite cell.
AssignmentCost(cm, f) ==
    IF \E i \in 1..Len(cm) : IsInf(cm[i][f[i]]) THEN INF
    ELSE RSum([i \in 1..Len(cm) |-> cm[i][f[i]]], Len(cm))

\* The complete assignments that use no infinite cell, each with its cost.
FiniteCosts(cm) ==
    LET all == Assignments(Len(cm))
        cost == [f \in all |-> AssignmentCost(cm, f)]
    IN  [f \in {g \in all : ~IsInf(cost[g])} |-> cost[f]]

Feasible(cm) == DOMAIN FiniteCosts(cm) # {}

\* scipy.optimize.linear_sum_assignment on a square matrix: the complete
\* assignments of minimum total cost.  Which of several minima is returned is
\* the library's choice, and the program does nothing to fix it: every call
\* may return any of them.  An empty set stands for ValueError("cost matrix
\* is infeasible").
linear_sum_assignment(cm) ==
    LET cost == FiniteCosts(cm)
    IN  { f \in DOMAIN cost : \A g \in DOMAIN cost : RLeq(cost[f], cost[g]) }

H_Empty == EmptyReturn("hungarian")

H_CostMatrix ==
    /\ pc = "idle"
    /\ n_a > 0 /\ n_b > 0
    /\ algorithm' = "hungarian"
    /\ cost_matrix' = PaddedCostMatrix(entities_a, entities_b, criteria)
    /\ pc' = "h_built"
    /\ UNCHANGED <<inputs, caller_vars, outcome, assignment, gs_vars, result_vars>>

H_Solve ==
    /\ pc = "h_built"
    /\ \E f \in linear_sum_assignment(cost_matrix) : assignment' = f
    /\ pc' = "h_solved"
    /\ UNCHANGED <<inputs, caller_vars, algorithm, outcome, cost_matrix, gs_vars, result_vars>>

\* linear_sum_assignment raises ValueError("cost matrix is infeasible"); match
\* has no handler, so the call ends with the exception.
H_SolveRaises ==
    /\ pc = "h_built"
    /\ ~Feasible(cost_matrix)
    /\ outcome' = "raised"
    /\ pc' = "done"
    /\ UNCHANGED <<inputs, caller_vars, algorithm, h_vars, gs_vars, result_vars>>

\* Mutant: a pair whose score is 0 is kept when min_score is 0.
H_Kept_NoPositive(cm, f, ea, eb, c) ==
    { i \in 1..Len(cm) :
        /\ i <= Len(ea) /\ f[i] <= Len(eb)
        /\ RLeq(c.min_score, RNeg(cm[i][f[i]])) }

\* The rows i (in order) whose assigned pair is kept as a Match.
H_Kept(cm, f, ea, eb, c) ==
    { i \in 1..Len(cm) :
        /\ i <= Len(ea) /\ f[i] <= Len(eb)
        /\ RLt(Zero, RNeg(cm[i][f[i]]))
        /\ RLeq(c.min_score, RNeg(cm[i][f[i]])) }

RECURSIVE SelectRows(_, _, _, _)
\* The sequence of g(i) for the i of 1..k that are in S, in increasing i.
SelectRows(S, g, k, acc) ==
    IF k = 0 THEN acc
    ELSE SelectRows(S, g, k - 1, IF k \in S THEN <<g[k]>> \o acc ELSE acc)

H_Matches(cm, f, ea, eb, c) ==
    SelectRows(H_Kept(cm, f, ea, eb, c),
               [i \in 1..Len(cm) |->
                  IF i <= Len(ea) /\ f[i] <= Len(eb)
                  THEN [entity_a_id |-> ea[i].id, entity_b_id |-> eb[f[i]].id,
                        score |-> RNeg(cm[i][f[i]])]
                  ELSE <<>>],
               Len(cm), <<>>)

H_Unmatched(cm, f, ea, eb, c) ==
    LET kept == H_Kept(cm, f, ea, eb, c)
        matched_a == kept
        matched_b == {f[i] : i \in kept}
    IN  SelectRows((1..Len(ea)) \ matched_a, [i \in 1..Len(ea) |-> ea[i].id], Len(ea), <<>>)
        \o SelectRows((1..Len(eb)) \ matched_b, [j \in 1..Len(eb) |-> eb[j].id], Len(eb), <<>>)

MatchScores(ms) == [k \in 1..Len(ms) |-> ms[k].score]

\* Mutant: the list of matches is kept on the matcher and never cleared, so a
\* call appends to the matches of the call before.
H_Extract_KeepsEarlierMatches ==
    /\ pc = "h_solved"
    /\ matches' = first_call.matches
                     \o H_Matches(cost_matrix, assignment, entities_a, entities_b, criteria)
    /\ unmatched_entities' =
          H_Unmatched(cost_matrix, assignment, entities_a, entities_b, criteria)
    /\ total_score' = RSum(MatchScores(matches'), Len(matches'))
    /\ outcome' = "returned"
    /\ pc' = "done"
    /\ UNCHANGED <<inputs, caller_vars, algorithm, h_vars, gs_vars>>

H_Extract ==
    /\ pc = "h_solved"
    /\ matches' = H_Matches(cost_matrix, assignment, entities_a, entities_b, criteria)
    /\ unmatched_entities' =
          H_Unmatched(cost_matrix, assignment, entities_a, entities_b, criteria)
    /\ total_score' = RSum(MatchScores(matches'), Len(matches'))
    /\ outcome' = "returned"
    /\ pc' = "done"
    /\ UNCHANGED <<inputs, caller_vars, algorithm, h_vars, gs_vars>>

(***************************************************************************)
(* GaleShapleyMatcher.match                                                *)
(***************************************************************************)
\* scores.sort(key=score, reverse=True) on [(e.id, sc[k]) for k-th e of ents],
\* then the ids: a stable sort, so equal scores keep the order of ents.
SortedIds(ents, sc) ==
    LET pos == [j \in 1..Len(ents) |->
                  1 + Cardinality({k \in 1..Len(ents) : RLt(sc[j], sc[k])})
                    + Cardinality({k \in 1..(j - 1) : sc[k] = sc[j]})] \o <<>>
    IN  [p \in 1..Len(ents) |-> ents[CHOOSE j \in 1..Len(ents) : pos[j] = p].id]

IdsOf(ents) == {ents[i].id : i \in 1..Len(ents)}

\* _build_preference_lists: one dict keyed by id; the b-side loop runs second
\* and overwrites the entry of an a-side id that is also a b-side id.
build_preference_lists(ea, eb, c) ==
    LET listA == [i \in 1..Len(ea) |->
                    SortedIds(eb, [j \in 1..Len(eb) |->
                                     GS_calculate_similarity(ea[i], eb[j], c)] \o <<>>)] \o <<>>
        listB == [j \in 1..Len(eb) |->
                    SortedIds(ea, [i \in 1..Len(ea) |->
                                     GS_calculate_similarity(eb[j], ea[i], c)] \o <<>>)] \o <<>>
    IN  [id \in IdsOf(ea) \cup IdsOf(eb) |->
            IF id \in IdsOf(eb)
            THEN listB[CHOOSE j \in 1..Len(eb) : eb[j].id = id]
            ELSE listA[CHOOSE i \in 1..Len(ea) : ea[i].id = id]]

\* entity_map = {e.id: e for e in entities_a + entities_b}
EntityMap(ea, eb) ==
    [id \in IdsOf(ea) \cup IdsOf(eb) |->
        IF id \in IdsOf(eb)
        THEN eb[CHOOSE j \in 1..Len(eb) : eb[j].id = id]
        ELSE ea[CHOOSE i \in 1..Len(ea) : ea[i].id = id]]

\* list.index(x): 0-based position of the first x.
Index(seq, x) == (CHOOSE i \in 1..Len(seq) : seq[i] = x /\ \A k \in 1..(i - 1) : seq[k] # x) - 1

\* `acceptor_id in engagements` and engagements[acceptor_id].
IsEngaged(eng, acc) == \E k \in 1..Len(eng) : eng[k].acceptor = acc
PartnerOf(eng, acc) == eng[CHOOSE k \in 1..Len(eng) : eng[k].acceptor = acc].proposer
\* engagements[acceptor_id] = proposer_id: a new key is appended, an existing
\* key keeps its place.
SetEngagement(eng, acc, p) ==
    IF IsEngaged(eng, acc)
    THEN [k \in 1..Len(eng) |-> IF eng[k].acceptor = acc
                                THEN [acceptor |-> acc, proposer |-> p] ELSE eng[k]]
    ELSE Append(eng, [acceptor |-> acc, proposer |-> p])

GS_Empty == EmptyReturn("gale_shapley")

\* Mutant: the b-side list is reordered in place before the tables are built.
GS_Start_ReordersInput ==
    /\ pc = "idle"
    /\ n_a > 0 /\ n_b > 0
    /\ algorithm' = "gale_shapley"
    /\ entities_b' = [j \in 1..n_b |-> entities_b[n_b + 1 - j]]
    /\ preferences' = build_preference_lists(entities_a, entities_b', criteria)
    /\ entity_map' = EntityMap(entities_a, entities_b')
    /\ free_proposers' = [i \in 1..n_a |-> entities_a[i].id]
    /\ engagements' = <<>>
    /\ proposer_index' = [id \in IdsOf(entities_a) |-> 0]
    /\ proposed' = <<>>
    /\ exhausted' = <<>>
    /\ pc' = "gs_loop"
    /\ UNCHANGED <<entities_a, criteria, caller_vars, outcome, h_vars, result_vars>>

GS_Start ==
    /\ pc = "idle"
    /\ n_a > 0 /\ n_b > 0
    /\ algorithm' = "gale_shapley"
    /\ preferences' = build_preference_lists(entities_a, entities_b, criteria)
    /\ entity_map' = EntityMap(entities_a, entities_b)
    /\ free_proposers' = [i \in 1..n_a |-> entities_a[i].id]
    /\ engagements' = <<>>
    /\ proposer_index' = [id \in IdsOf(entities_a) |-> 0]
    /\ proposed' = <<>>
    /\ exhausted' = <<>>
    /\ pc' = "gs_loop"
    /\ UNCHANGED <<inputs, caller_vars, outcome, h_vars, result_vars>>

proposer_id == free_proposers[1]
proposer_prefs == preferences[proposer_id]
InLoop == pc = "gs_loop" /\ free_proposers # <<>>
\* Mutant: the last entry of the list is never reached.
HasNext_OneShort == proposer_index[proposer_id] < Len(proposer_prefs) - 1
\* not `proposer_index[proposer_id] >= len(proposer_prefs)`
HasNext == proposer_index[proposer_id] < Len(proposer_prefs)
acceptor_id == proposer_prefs[proposer_index[proposer_id] + 1]

\* `if proposer_index[proposer_id] >= len(proposer_prefs): pop(0); continue`
GS_Exhausted ==
    /\ InLoop
    /\ ~HasNext
    /\ free_proposers' = Tail(free_proposers)
    /\ exhausted' = Append(exhausted, proposer_id)
    /\ UNCHANGED <<inputs, caller_vars, algorithm, pc, outcome, h_vars, preferences, entity_map,
                   engagements, proposer_index, proposed, result_vars>>

Propose ==
    /\ InLoop
    /\ HasNext
    /\ proposer_index' = [proposer_index EXCEPT ![proposer_id] = @ + 1]
    /\ proposed' = Append(proposed, <<proposer_id, acceptor_id>>)
    /\ UNCHANGED <<inputs, caller_vars, algorithm, pc, outcome, h_vars, preferences, entity_map,
                   exhausted, result_vars>>

\* Mutant: the engaged proposer is not taken off the free list.
GS_Engage_NoPop ==
    /\ Propose
    /\ ~IsEngaged(engagements, acceptor_id)
    /\ engagements' = SetEngagement(engagements, acceptor_id, proposer_id)
    /\ free_proposers' = free_proposers

\* `if acceptor_id not in engagements`
GS_Engage ==
    /\ Propose
    /\ ~IsEngaged(engagements, acceptor_id)
    /\ engagements' = SetEngagement(engagements, acceptor_id, proposer_id)
    /\ free_proposers' = Tail(free_proposers)

\* Mutant: the comparison of the two positions is reversed.
Prefers_Reversed(prefs, acc, p, current) == Index(prefs[acc], p) > Index(prefs[acc], current)

\* The acceptor's own list places the new proposer before its partner.
Prefers(prefs, acc, p, current) == Index(prefs[acc], p) < Index(prefs[acc], current)

\* Mutant: the displaced proposer starts again at the top of its list.
GS_Swap_ResetsIndex ==
    /\ InLoop
    /\ HasNext
    /\ IsEngaged(engagements, acceptor_id)
    /\ Prefers(preferences, acceptor_id, proposer_id, PartnerOf(engagements, acceptor_id))
    /\ proposer_index' = [proposer_index EXCEPT
                             ![proposer_id] = @ + 1,
                             ![PartnerOf(engagements, acceptor_id)] = 0]
    /\ proposed' = Append(proposed, <<proposer_id, acceptor_id>>)
    /\ engagements' = SetEngagement(engagements, acceptor_id, proposer_id)
    /\ free_proposers' = Append(Tail(free_proposers), PartnerOf(engagements, acceptor_id))
    /\ UNCHANGED <<inputs, caller_vars, algorithm, pc, outcome, h_vars, preferences, entity_map,
                   exhausted, result_vars>>

GS_Swap ==
    /\ Propose
    /\ IsEngaged(engagements, acceptor_id)
    /\ Prefers(preferences, acceptor_id, proposer_id, PartnerOf(engagements, acceptor_id))
    /\ engagements' = SetEngagement(engagements, acceptor_id, proposer_id)
    /\ free_proposers' = Append(Tail(free_proposers), PartnerOf(engagements, acceptor_id))

\* Mutant: the acceptor takes the new proposer although it ranks its partner higher.
GS_Reject_TakesOver ==
    /\ Propose
    /\ IsEngaged(engagements, acceptor_id)
    /\ ~Prefers(preferences, acceptor_id, proposer_id, PartnerOf(engagements, acceptor_id))
    /\ engagements' = SetEngagement(engagements, acceptor_id, proposer_id)
    /\ free_proposers' = Append(Tail(free_proposers), PartnerOf(engagements, acceptor_id))

\* Otherwise the proposer stays first in the free list and tries its next entry.
GS_Reject ==
    /\ Propose
    /\ IsEngaged(engagements, acceptor_id)
    /\ ~Prefers(preferences, acceptor_id, proposer_id, PartnerOf(engagements, acceptor_id))
    /\ UNCHANGED <<engagements, free_proposers>>

\* The engaged pairs kept by `if score >= criteria.min_score`, in dict order.
GS_PairScore(eng, k, emap, c) ==
    GS_calculate_similarity(emap[eng[k].proposer], emap[eng[k].acceptor], c)

GS_Matches(eng, emap, c) ==
    SelectRows({k \in 1..Len(eng) : RLeq(c.min_score, GS_PairScore(eng, k, emap, c))},
               [k \in 1..Len(eng) |->
                  [entity_a_id |-> eng[k].proposer, entity_b_id |-> eng[k].acceptor,
                   score |-> GS_PairScore(eng, k, emap, c)]],
               Len(eng), <<>>)

\* [e.id for e in entities_a + entities_b if e.id not in matched_ids]
GS_Unmatched(ms, ids) ==
    LET matched_ids == {ms[k].entity_a_id : k \in 1..Len(ms)}
                       \cup {ms[k].entity_b_id : k \in 1..Len(ms)}
    IN  SelectRows({i \in 1..Len(ids) : ids[i] \notin matched_ids}, ids, Len(ids), <<>>)

GS_Finish ==
    /\ pc = "gs_loop"
    /\ free_proposers = <<>>
    /\ matches' = GS_Matches(engagements, entity_map, criteria)
    /\ unmatched_entities' = GS_Unmatched(matches', AllIds)
    /\ total_score' = RSum(MatchScores(matches'), Len(matches'))
    /\ outcome' = "returned"
    /\ pc' = "done"
    /\ UNCHANGED <<inputs, caller_vars, algorithm, h_vars, gs_vars>>

Next ==
    \/ H_Empty
    \/ H_CostMatrix
    \/ H_Solve
    \/ H_SolveRaises
    \/ H_Extract
    \/ GS_Empty
    \/ GS_Start
    \/ GS_Exhausted
    \/ GS_Engage
    \/ GS_Swap
    \/ GS_Reject
    \/ GS_Finish

Spec == Init /\ [][Next]_vars

(***************************************************************************)
(* Calls whose identifiers are unique within each side but may be shared   *)
(* between the sides: the j-th b-side entity carries either its own id or  *)
(* the id of the j-th a-side entity.                                       *)
(***************************************************************************)
InitSharedIds ==
    /\ \E n \in 0..MaxA, m \in 0..MaxB :
         /\ entities_a \in { [i \in 1..n |-> [id |-> AIds[i], attributes |-> x[i]]] :
                               x \in [1..n -> CorePool] }
         /\ entities_b \in { [j \in 1..m |-> [id |-> ids[j], attributes |-> x[j]]] :
                               x \in [1..m -> CorePool],
                               ids \in [1..m -> {AIds[i] : i \in 1..n} \cup {BIds[j] : j \in 1..m}] }
         /\ \A j, k \in 1..m : entities_b[j].id = entities_b[k].id => j = k
         /\ \A j \in 1..m : entities_b[j].id \in {AIds[j], BIds[j]}
    /\ criteria \in CriteriaPool
    /\ Fresh
    /\ request = NoRequest /\ response = NoResponse /\ first_call = NoCall
    /\ matcher = Matchers /\ other_call = NoOtherCall
    /\ NoAgent

SpecSharedIds == InitSharedIds /\ [][Next]_vars

\* One iteration of `while free_proposers:`.
GS_Step == GS_Exhausted \/ GS_Engage \/ GS_Swap \/ GS_Reject

\* match() is synchronous: the loop takes its next iteration whenever it has one.
FairSpec == Spec /\ WF_vars(GS_Step)

(***************************************************************************)
(* Two calls of match in a row on the same entities_a, entities_b and      *)
(* criteria, each by either matcher.  Every call builds its cost matrix or *)
(* its preference tables anew; the matcher objects keep no state.          *)
(***************************************************************************)
InitTwoCalls ==
    /\ \E n \in 0..MaxB, m \in 0..MaxB :
         /\ entities_a \in { [i \in 1..n |-> [id |-> AIds[i], attributes |-> x[i]]] :
                               x \in [1..n -> CorePool] }
         /\ entities_b \in { [j \in 1..m |-> [id |-> BIds[j], attributes |-> x[j]]] :
                               x \in [1..m -> CorePool] }
    /\ criteria \in CriteriaPool
    /\ Fresh
    /\ request = NoRequest /\ response = NoResponse /\ first_call = NoCall
    /\ matcher = Matchers /\ other_call = NoOtherCall
    /\ NoAgent

\* What the caller keeps of a call that has ended.
EndedCall ==
    [algorithm |-> algorithm, outcome |-> outcome, min_score |-> criteria.min_score,
     cost_matrix |-> cost_matrix, assignment |-> assignment,
     preferences |-> preferences, engagements |-> engagements,
     matches |-> matches, unmatched_entities |-> unmatched_entities,
     total_score |-> total_score]

\* Entry of the next call: nothing of the ended call is left.
StartOver ==
    /\ algorithm' = "none"
    /\ pc' = "idle"
    /\ outcome' = "none"
    /\ cost_matrix' = <<>>
    /\ assignment' = <<>>
    /\ preferences' = <<>>
    /\ entity_map' = <<>>
    /\ free_proposers' = <<>>
    /\ engagements' = <<>>
    /\ proposer_index' = <<>>
    /\ proposed' = <<>>
    /\ exhausted' = <<>>
    /\ matches' = <<>>
    /\ unmatched_entities' = <<>>
    /\ total_score' = Zero

\* The first call has ended; the caller keeps its outcome and calls again.
CallAgain ==
    /\ pc = "done"
    /\ first_call = NoCall
    /\ first_call' = EndedCall
    /\ StartOver
    /\ UNCHANGED <<inputs, request, response, matcher, other_call, agent_vars>>

TwoCallsNext == Next \/ CallAgain

SpecTwoCalls == InitTwoCalls /\ [][TwoCallsNext]_vars

(***************************************************************************)
(* Two calls of match in a row on the same entities and weights, the       *)
(* second with a Criteria that differs in min_score only.                  *)
(***************************************************************************)
Thresholds == {Zero, Half, One}

CallAgainOtherThreshold ==
    /\ pc = "done"
    /\ first_call = NoCall
    /\ first_call' = EndedCall
    /\ StartOver
    /\ \E t \in Thresholds \ {criteria.min_score} :
          criteria' = [criteria EXCEPT !.min_score = t]
    /\ UNCHANGED <<entities_a, entities_b, request, response, matcher, other_call,
                   agent_vars>>

TwoThresholdsNext == Next \/ CallAgainOtherThreshold

SpecTwoThresholds == InitTwoCalls /\ [][TwoThresholdsNext]_vars

(***************************************************************************)
(* Two calls of match in progress at once on the same matcher objects,     *)
(* each with its own entity lists and Criteria (two threads).  The state   *)
(* variables hold the call that is running; other_call holds the call      *)
(* that is suspended.  The matchers' fields are all the calls share.       *)
(***************************************************************************)
InterleavePool == { Attrs(Num(5), Str(py)), Attrs(Num(85), Missing) }

InterleaveCriteria ==
    { MakeCriteria(Weights(1, 0), {"exp"}, {}, Zero),
      MakeCriteria(Weights(1, 3), {"exp", "skill"}, {"skill"}, Half) }

\* The locals and arguments of the running call.  interrupted: the call was
\* suspended between its entry and its return.
CallState(was_interrupted, other_was_interrupted) ==
    [entities_a |-> entities_a, entities_b |-> entities_b, criteria |-> criteria,
     algorithm |-> algorithm, pc |-> pc, outcome |-> outcome,
     cost_matrix |-> cost_matrix, assignment |-> assignment,
     preferences |-> preferences, entity_map |-> entity_map,
     free_proposers |-> free_proposers, engagements |-> engagements,
     proposer_index |-> proposer_index, proposed |-> proposed, exhausted |-> exhausted,
     matches |-> matches, unmatched_entities |-> unmatched_entities,
     total_score |-> total_score,
     interrupted |-> was_interrupted, other_interrupted |-> other_was_interrupted]

\* A call that has not been entered yet.
FreshCall(ea, eb, c) ==
    [entities_a |-> ea, entities_b |-> eb, criteria |-> c,
     algorithm |-> "none", pc |-> "idle", outcome |-> "none",
     cost_matrix |-> <<>>, assignment |-> <<>>,
     preferences |-> <<>>, entity_map |-> <<>>,
     free_proposers |-> <<>>, engagements |-> <<>>,
     proposer_index |-> <<>>, proposed |-> <<>>, exhausted |-> <<>>,
     matches |-> <<>>, unmatched_entities |-> <<>>,
     total_score |-> Zero,
     interrupted |-> FALSE, other_interrupted |-> FALSE]

InitInterleaved ==
    /\ \E n \in 0..MaxB, m \in 0..MaxB :
         /\ entities_a \in { [i \in 1..n |-> [id |-> AIds[i], attributes |-> x[i]]] :
                               x \in [1..n -> InterleavePool] }
         /\ entities_b \in { [j \in 1..m |-> [id |-> BIds[j], attributes |-> x[j]]] :
                               x \in [1..m -> InterleavePool] }
    /\ criteria \in InterleaveCriteria
    /\ Fresh
    /\ request = NoRequest /\ response = NoResponse /\ first_call = NoCall
    /\ matcher = Matchers
    /\ NoAgent
    /\ \E m \in 1..2 :
         other_call \in
            { FreshCall(<<[id |-> AIds[1], attributes |-> Attrs(Num(5), Str(py))],
                          [id |-> AIds[2], attributes |-> Attrs(Num(85), Missing)]>>,
                        [j \in 1..m |-> [id |-> BIds[j], attributes |-> xb[j]]],
                        MakeCriteria(Weights(1, 0), {"exp"}, {}, Zero)) :
                xb \in [1..m -> InterleavePool] }

\* The scheduler suspends the running call and resumes the other one.
Switch ==
    /\ other_call.pc # "none"
    /\ first_call = NoCall
    /\ other_call' = CallState(other_call.other_interrupted \/ pc \notin {"idle", "done"},
                               other_call.interrupted)
    /\ entities_a' = other_call.entities_a
    /\ entities_b' = other_call.entities_b
    /\ criteria' = other_call.criteria
    /\ algorithm' = other_call.algorithm
    /\ pc' = other_call.pc
    /\ outcome' = other_call.outcome
    /\ cost_matrix' = other_call.cost_matrix
    /\ assignment' = other_call.assignment
    /\ preferences' = other_call.preferences
    /\ entity_map' = other_call.entity_map
    /\ free_proposers' = other_call.free_proposers
    /\ engagements' = other_call.engagements
    /\ proposer_index' = other_call.proposer_index
    /\ proposed' = other_call.proposed
    /\ exhausted' = other_call.exhausted
    /\ matches' = other_call.matches
    /\ unmatched_entities' = other_call.unmatched_entities
    /\ total_score' = other_call.total_score
    /\ UNCHANGED <<request, response, first_call, matcher, agent_vars>>

\* The two calls take their steps in any order; a call that has ended is
\* made again on its arguments, this time alone.
InterleavedNext == Next \/ Switch \/ CallAgain

SpecInterleaved == InitInterleaved /\ [][InterleavedNext]_vars

(***************************************************************************)
(* The two matchers called one after the other on the same arguments       *)
(* (example_usage.py), on entities whose texts differ in more than case.   *)
(***************************************************************************)
BothPool ==
    { Attrs(Num(5), Str(py)), Attrs(Num(5), Str(sq)),
      Attrs(Num(85), Str(py)), Attrs(Num(85), Str(sq)) }

InitBothMatchers ==
    /\ \E n \in 0..MaxB, m \in 0..MaxB :
         /\ entities_a \in { [i \in 1..n |-> [id |-> AIds[i], attributes |-> x[i]]] :
                               x \in [1..n -> BothPool] }
         /\ entities_b \in { [j \in 1..m |-> [id |-> BIds[j], attributes |-> x[j]]] :
                               x \in [1..m -> BothPool] }
    /\ criteria \in CriteriaPool
    /\ Fresh
    /\ request = NoRequest /\ response = NoResponse /\ first_call = NoCall
    /\ matcher = Matchers /\ other_call = NoOtherCall
    /\ NoAgent

SpecBothMatchers == InitBothMatchers /\ [][TwoCallsNext]_vars

(***************************************************************************)
(* POST /api/match (api/main.py, match_entities).  The request carries the *)
(* two entity lists, the criteria fields and the algorithm selector; the   *)
(* handler converts them, selects a matcher, calls match and answers.      *)
(* Every exception raised inside the handler's try block, HTTPException    *)
(* included (it is a subclass of Exception), reaches `except Exception`    *)
(* and is answered with status 500 and detail str(e).                      *)
(***************************************************************************)
EntityTypeValues == {"user", "item", "job", "candidate", "mentor", "mentee"}

sel_hungarian == <<"h", "u", "n", "g", "a", "r", "i", "a", "n">>
sel_gale_shapley == <<"g", "a", "l", "e", "_", "s", "h", "a", "p", "l", "e", "y">>

\* The selectors of the requests.
SelectorPool ==
    { sel_hungarian,
      <<"H", "u", "n", "g", "a", "r", "i", "a", "n">>,
      sel_gale_shapley,
      <<"G", "A", "L", "E", "_", "S", "H", "A", "P", "L", "E", "Y">>,
      <<"g", "a", "l", "e", "-", "s", "h", "a", "p", "l", "e", "y">>,
      <<"s", "t", "a", "b", "l", "e", "-", "m", "a", "t", "c", "h", "i", "n", "g">>,
      <<>> }

\* The attribute dicts of the entities of the requests.
ApiPool == { Attrs(Num(5), Str(py)), Attrs(Num(45), Str(Py)) }

\* The CriteriaRequest parts of the requests: weights as given by the client.
CriteriaRequestPool ==
    { [weights |-> Weights(1, 0), keys |-> {"exp"}, required_attributes |-> {},
       min_score |-> Zero],
      [weights |-> Weights(3, 0), keys |-> {"exp"}, required_attributes |-> {},
       min_score |-> Half],
      [weights |-> Weights(1, 3), keys |-> {"exp", "skill"}, required_attributes |-> {"skill"},
       min_score |-> Half],
      [weights |-> Weights(2, 2), keys |-> {"exp", "skill"}, required_attributes |-> {},
       min_score |-> Zero],
      [weights |-> Weights(0, 2), keys |-> {"exp", "skill"}, required_attributes |-> {},
       min_score |-> Zero],
      [weights |-> Weights(0, 0), keys |-> {"exp", "skill"}, required_attributes |-> {},
       min_score |-> Zero],
      [weights |-> Weights(0, 0), keys |-> {"exp"}, required_attributes |-> {},
       min_score |-> Zero] }

\* The value of `criteria` before the handler has constructed it.
NoCriteria ==
    [keys |-> {}, weights |-> [a \in AttrSet |-> Zero], required_attributes |-> {},
     min_score |-> Zero]

\* The state before a call of match that is shared by all entry points.
ApiFresh ==
    /\ algorithm = "none"
    /\ outcome = "none"
    /\ cost_matrix = <<>>
    /\ assignment = <<>>
    /\ preferences = <<>>
    /\ entity_map = <<>>
    /\ free_proposers = <<>>
    /\ engagements = <<>>
    /\ proposer_index = <<>>
    /\ proposed = <<>>
    /\ exhausted = <<>>
    /\ matches = <<>>
    /\ unmatched_entities = <<>>
    /\ total_score = Zero

\* A request has arrived; nothing is converted yet.
InitApi ==
    /\ \E n \in 0..MaxA, m \in 0..MaxB :
         \E xa \in [1..n -> ApiPool], xb \in [1..m -> ApiPool],
            ta \in {"candidate", "alien"}, c \in CriteriaRequestPool, sel \in SelectorPool :
            request =
                [entities_a |-> [i \in 1..n |-> [id |-> AIds[i], entity_type |-> ta,
                                                 attributes |-> xa[i]]],
                 entities_b |-> [j \in 1..m |-> [id |-> BIds[j], entity_type |-> "job",
                                                 attributes |-> xb[j]]],
                 weights |-> c.weights, keys |-> c.keys,
                 required_attributes |-> c.required_attributes,
                 min_score |-> c.min_score, algorithm |-> sel]
    /\ entities_a = <<>>
    /\ entities_b = <<>>
    /\ criteria = NoCriteria
    /\ pc = "request"
    /\ ApiFresh
    /\ response = NoResponse
    /\ first_call = NoCall
    /\ matcher = Matchers /\ other_call = NoOtherCall
    /\ NoAgent

\* `except Exception as e: raise HTTPException(status_code=500, detail=str(e))`
ErrorResponse(detail) ==
    [status_code |-> 500, detail |-> detail, matches |-> <<>>, unmatched_entities |-> <<>>,
     total_score |-> Zero, statistics |-> get_statistics(<<>>, <<>>, Zero)]

\* Entity(id=e.id, entity_type=EntityType(e.entity_type), attributes=e.attributes, ...)
ToEntities(reqs) == [i \in 1..Len(reqs) |-> [id |-> reqs[i].id, attributes |-> reqs[i].attributes]]

ValidEntityTypes(reqs) == \A i \in 1..Len(reqs) : reqs[i].entity_type \in EntityTypeValues

\* Lines 96-125: the entities and the Criteria are constructed.
Api_Convert ==
    /\ pc = "request"
    /\ ValidEntityTypes(request.entities_a) /\ ValidEntityTypes(request.entities_b)
    /\ entities_a' = ToEntities(request.entities_a)
    /\ entities_b' = ToEntities(request.entities_b)
    /\ criteria' = MakeCriteria(request.weights, request.keys, request.required_attributes,
                                request.min_score)
    /\ pc' = "api_select"
    /\ UNCHANGED <<algorithm, outcome, h_vars, gs_vars, result_vars, caller_vars>>

\* EntityType(e.entity_type) raises ValueError on a tag that is no member.
Api_ConvertRaises ==
    /\ pc = "request"
    /\ ~(ValidEntityTypes(request.entities_a) /\ ValidEntityTypes(request.entities_b))
    /\ response' = ErrorResponse("ValueError: not a valid EntityType")
    /\ pc' = "api_done"
    /\ UNCHANGED <<inputs, algorithm, outcome, h_vars, gs_vars, result_vars, request,
                   first_call, matcher, other_call, agent_vars>>

KnownSelector(sel) == Lower(sel) = sel_hungarian \/ Lower(sel) = sel_gale_shapley

\* Lines 128-131: matcher = HungarianMatcher() / GaleShapleyMatcher().
Api_Select ==
    /\ pc = "api_select"
    /\ KnownSelector(request.algorithm)
    /\ algorithm' = IF Lower(request.algorithm) = sel_hungarian THEN "hungarian"
                    ELSE "gale_shapley"
    /\ pc' = "idle"
    /\ UNCHANGED <<inputs, outcome, h_vars, gs_vars, result_vars, caller_vars>>

\* Lines 132-133 and 157-158: HTTPException(400, "Unknown algorithm: ...") is
\* raised inside the try block, caught by `except Exception` and replaced by
\* HTTPException(500) whose detail is the text of the first one.
Api_Unknown ==
    /\ pc = "api_select"
    /\ ~KnownSelector(request.algorithm)
    /\ response' = ErrorResponse("HTTPException 400: Unknown algorithm")
    /\ pc' = "api_done"
    /\ UNCHANGED <<inputs, algorithm, outcome, h_vars, gs_vars, result_vars, request,
                   first_call, matcher, other_call, agent_vars>>

\* Lines 138-155: the MatchingResult is copied into the MatchingResponse.
Api_Respond ==
    /\ pc = "done"
    /\ outcome = "returned"
    /\ response' = [status_code |-> 200, detail |-> "", matches |-> matches,
                    unmatched_entities |-> unmatched_entities, total_score |-> total_score,
                    statistics |-> get_statistics(matches, unmatched_entities, total_score)]
    /\ pc' = "api_done"
    /\ UNCHANGED <<inputs, algorithm, outcome, h_vars, gs_vars, result_vars, request,
                   first_call, matcher, other_call, agent_vars>>

\* Lines 157-158 after match raised.
Api_MatchRaised ==
    /\ pc = "done"
    /\ outcome = "raised"
    /\ response' = ErrorResponse("ValueError: cost matrix is infeasible")
    /\ pc' = "api_done"
    /\ UNCHANGED <<inputs, algorithm, outcome, h_vars, gs_vars, result_vars, request,
                   first_call, matcher, other_call, agent_vars>>

\* Line 136: matcher.match(entities_a, entities_b, criteria) of the selected matcher.
Api_HungarianMatch ==
    /\ algorithm = "hungarian"
    /\ H_Empty \/ H_CostMatrix \/ H_Solve \/ H_SolveRaises \/ H_Extract

Api_GaleShapleyMatch ==
    /\ algorithm = "gale_shapley"
    /\ GS_Empty \/ GS_Start \/ GS_Exhausted \/ GS_Engage \/ GS_Swap \/ GS_Reject \/ GS_Finish

ApiNext ==
    \/ Api_Convert
    \/ Api_ConvertRaises
    \/ Api_Select
    \/ Api_Unknown
    \/ Api_HungarianMatch
    \/ Api_GaleShapleyMatch
    \/ Api_Respond
    \/ Api_MatchRaised

ApiSpec == InitApi /\ [][ApiNext]_vars

(***************************************************************************)
(* OrchestratorAgent of 03-engineering-pipeline-agent                      *)
(* (agents/orchestrator_agent.py): one agent whose execute_pipeline is     *)
(* called MaxCalls times, in a row or from several threads at the same     *)
(* time.  The calls are numbered in the order they start.                  *)
(* self.config, self.stage_results and self.context are shared by the      *)
(* calls; the loop variable, `result` and the lists of _generate_summary   *)
(* are local to a call.  Every stage handler waits (time.sleep) before it  *)
(* reads anything, so another call runs between the test of line 83 and    *)
(* the handler's read, and between the handler and the writes of lines     *)
(* 85-86.  A step of a call is one access to the shared fields.  A stage   *)
(* handler raises only where it reads its input: the source stage, when    *)
(* project_config.get('branch') raises.  Times are not modelled, nor the   *)
(* order of the entries of context['stages_completed'].                    *)
(***************************************************************************)
\* The config dicts, with the defaults of config.get filled in: the
\* default config and the configs with one flag off.
ConfigPool ==
    {cfg \in [run_tests : BOOLEAN, run_quality_checks : BOOLEAN, stop_on_failure : BOOLEAN] :
        Cardinality({f \in {"run_tests", "run_quality_checks", "stop_on_failure"} : ~cfg[f]})
           <= 1}

\* project_config: its name, and whether get('branch', ...) returns.
ProjectPool == [name : {"p1", "p2"}, branch_readable : BOOLEAN]

\* The project configs of the call t: the first call is of the project p1,
\* the later ones of p2.
ProjectsOf(t) == {p \in ProjectPool : p.name = (IF t = 1 THEN "p1" ELSE "p2")}

\* self.stage_results.get(stage): its status, "none" without an entry.
StatusOf(sr, stage) ==
    IF \E k \in 1..Len(sr) : sr[k].stage = stage
    THEN sr[CHOOSE k \in 1..Len(sr) : sr[k].stage = stage].status
    ELSE "none"

\* self.stage_results[stage] = result: a new key is appended, an existing
\* key keeps its place.
SetResult(sr, stage, status) ==
    IF \E k \in 1..Len(sr) : sr[k].stage = stage
    THEN [k \in 1..Len(sr) |-> IF sr[k].stage = stage
                               THEN [stage |-> stage, status |-> status] ELSE sr[k]]
    ELSE Append(sr, [stage |-> stage, status |-> status])

\* _should_execute_stage for the stage at the 1-based position idx.
should_execute_stage(sr, cfg, idx) ==
    IF idx > 1 /\ StatusOf(sr, stages[idx - 1]) = "failed" THEN FALSE
    ELSE IF stages[idx] = "test" THEN cfg.run_tests
    ELSE IF stages[idx] = "quality" THEN cfg.run_quality_checks
    ELSE TRUE

\* _run_stage_logic raises: only _source_stage reads the project.
StageRaises(stage, ctx) == stage = "source" /\ ~ctx.project.branch_readable

\* _execute_stage: the status of the StageResult it returns.
execute_stage(stage, ctx) == IF StageRaises(stage, ctx) THEN "failed" ELSE "success"

\* The dict _generate_summary returns (without the times and the error
\* texts), from the lists its comprehensions built and the name it read.
generate_summary(successful_stages, failed_stages, project, results) ==
    [project |-> project,
     stages_total |-> Len(stages),
     stages_successful |-> Len(successful_stages),
     stages_failed |-> Len(failed_stages),
     successful_stages |-> successful_stages,
     failed_stages |-> failed_stages,
     pipeline_status |-> IF failed_stages = <<>> THEN "success" ELSE "failed",
     stage_results |-> results]

\* The agent after __init__, with no matching call anywhere.
InitAgent ==
    /\ entities_a = <<>> /\ entities_b = <<>> /\ criteria = NoCriteria
    /\ Fresh
    /\ request = NoRequest /\ response = NoResponse /\ first_call = NoCall
    /\ matcher = Matchers /\ other_call = NoOtherCall
    /\ config \in ConfigPool
    /\ stage_results = <<>>
    /\ context = [project |-> [name |-> "", branch_readable |-> TRUE], stages_completed |-> NoneCompleted]
    /\ run = [c \in Calls |-> NoRun]
    /\ summary = [c \in Calls |-> <<>>]

matching_vars ==
    <<inputs, algorithm, pc, outcome, h_vars, gs_vars, result_vars,
      request, response, first_call, matcher, other_call>>

\* The call t is inside execute_pipeline.
InCall(r, t) == r[t].pc \notin {"not_called", "returned", "raised"}

\* The call of t goes on to the next stage, or to _generate_summary after
\* the last one.
NextStage(r) ==
    IF r.index < Len(stages)
    THEN [r EXCEPT !.pc = "loop", !.index = @ + 1, !.result = "none"]
    ELSE [r EXCEPT !.pc = "successful", !.index = 0, !.result = "none"]

\* Lines 72-79, the entry of execute_pipeline: self.context is replaced,
\* self.stage_results is left as the other calls filled it.
Pipe_Start(t) ==
    /\ run[t].pc = "not_called"
    /\ t > 1 => run[t - 1].pc # "not_called"
    /\ \E project_config \in ProjectsOf(t) :
          context' = [project |-> project_config, stages_completed |-> NoneCompleted]
    /\ run' = [u \in Calls |->
                 IF u = t
                 THEN [NoRun EXCEPT !.pc = "loop", !.index = 1,
                                    !.alone = \A v \in Calls \ {t} : ~InCall(run, v)]
                 ELSE IF InCall(run, u) THEN [run[u] EXCEPT !.alone = FALSE] ELSE run[u]]
    /\ UNCHANGED <<matching_vars, config, stage_results, summary>>

\* Line 83: _should_execute_stage reads self.stage_results and self.config.
Pipe_Test(t) ==
    /\ run[t].pc = "loop"
    /\ run' = [run EXCEPT ![t].pc =
                 IF should_execute_stage(stage_results, config, run[t].index)
                 THEN "stage" ELSE "skip"]
    /\ UNCHANGED <<matching_vars, config, stage_results, context, summary>>

\* Line 84: _execute_stage, after the wait of the stage handler; the source
\* stage reads self.context as it is now.
Pipe_Stage(t) ==
    /\ run[t].pc = "stage"
    /\ run' = [run EXCEPT ![t].pc = "record",
                          ![t].result = execute_stage(stages[run[t].index], context)]
    /\ UNCHANGED <<matching_vars, config, stage_results, context, summary>>

\* Line 85: self.stage_results[stage] = result.
Pipe_Record(t) ==
    /\ run[t].pc = "record"
    /\ stage_results' = SetResult(stage_results, stages[run[t].index], run[t].result)
    /\ run' = [run EXCEPT ![t].pc = "completed",
                          ![t].handled = @ \cup {[stage |-> stages[run[t].index],
                                                  status |-> run[t].result]}]
    /\ UNCHANGED <<matching_vars, config, context, summary>>

\* Lines 86-91: the stage is added to the stages_completed of the context
\* that is there now; a failure breaks the loop if configured.
Pipe_Completed(t) ==
    /\ run[t].pc = "completed"
    /\ context' = [context EXCEPT !.stages_completed[stages[run[t].index]] = @ + 1]
    /\ run' = [run EXCEPT ![t] =
                 IF run[t].result = "failed" /\ config.stop_on_failure
                 THEN [@ EXCEPT !.pc = "successful", !.index = 0, !.result = "none"]
                 ELSE NextStage(@)]
    /\ UNCHANGED <<matching_vars, config, stage_results, summary>>

\* Lines 93-99: the stage is recorded as skipped.
Pipe_Skip(t) ==
    /\ run[t].pc = "skip"
    /\ stage_results' = SetResult(stage_results, stages[run[t].index], "skipped")
    /\ run' = [run EXCEPT ![t] =
                 NextStage([@ EXCEPT !.handled = @ \cup {[stage |-> stages[run[t].index],
                                                          status |-> "skipped"]}])]
    /\ UNCHANGED <<matching_vars, config, context, summary>>

\* The three traversals of self.stage_results.items() in _generate_summary
\* (lines 280-283, 284-287, 298-305).
Traversals == {"successful", "failed", "results"}

\* self.stage_results.items() is taken and its iterator made: it remembers
\* the size of the dict.
Pipe_Items(t) ==
    /\ run[t].pc \in Traversals
    /\ run[t].index = 0
    /\ run' = [run EXCEPT ![t].index = 1, ![t].size = Len(stage_results)]
    /\ UNCHANGED <<matching_vars, config, stage_results, context, summary>>

\* The iterator yields the next item, as the dict holds it now, and the
\* comprehension keeps or drops it.
Pipe_NextItem(t) ==
    /\ run[t].pc \in Traversals
    /\ run[t].index >= 1
    /\ Len(stage_results) = run[t].size
    /\ run[t].index <= run[t].size
    /\ LET item == stage_results[run[t].index]
       IN  run' = [run EXCEPT
                     ![t].index = @ + 1,
                     ![t].successful_stages =
                         IF run[t].pc = "successful" /\ item.status = "success"
                         THEN Append(@, item.stage) ELSE @,
                     ![t].failed_stages =
                         IF run[t].pc = "failed" /\ item.status = "failed"
                         THEN Append(@, item.stage) ELSE @,
                     ![t].results =
                         IF run[t].pc = "results" THEN Append(@, item) ELSE @]
    /\ UNCHANGED <<matching_vars, config, stage_results, context, summary>>

\* The iterator finds the dict grown by another call: RuntimeError
\* ("dictionary changed size during iteration") leaves execute_pipeline.
Pipe_ItemsChanged(t) ==
    /\ run[t].pc \in Traversals
    /\ run[t].index >= 1
    /\ Len(stage_results) # run[t].size
    /\ run' = [run EXCEPT ![t] = [NoRun EXCEPT !.pc = "raised",
                                               !.handled = run[t].handled,
                                               !.alone = run[t].alone]]
    /\ UNCHANGED <<matching_vars, config, stage_results, context, summary>>

\* The iterator of the first or second comprehension is exhausted.
Pipe_ItemsEnd(t) ==
    /\ run[t].pc \in {"successful", "failed"}
    /\ run[t].index >= 1
    /\ Len(stage_results) = run[t].size
    /\ run[t].index > run[t].size
    /\ run' = [run EXCEPT ![t].pc = IF run[t].pc = "successful" THEN "failed" ELSE "project",
                          ![t].index = 0, ![t].size = 0]
    /\ UNCHANGED <<matching_vars, config, stage_results, context, summary>>

\* Line 290: the name of the project of the context that is there now.
Pipe_Project(t) ==
    /\ run[t].pc = "project"
    /\ run' = [run EXCEPT ![t].pc = "results", ![t].project = context.project.name]
    /\ UNCHANGED <<matching_vars, config, stage_results, context, summary>>

\* The last comprehension is exhausted: the summary is returned.
Pipe_Return(t) ==
    /\ run[t].pc = "results"
    /\ run[t].index >= 1
    /\ Len(stage_results) = run[t].size
    /\ run[t].index > run[t].size
    /\ summary' = [summary EXCEPT ![t] =
                     generate_summary(run[t].successful_stages, run[t].failed_stages,
                                      run[t].project, run[t].results)]
    /\ run' = [run EXCEPT ![t] = [NoRun EXCEPT !.pc = "returned",
                                               !.handled = run[t].handled,
                                               !.alone = run[t].alone]]
    /\ UNCHANGED <<matching_vars, config, stage_results, context>>

PipeNext ==
    \E t \in Calls :
       \/ Pipe_Start(t)
       \/ Pipe_Test(t)
       \/ Pipe_Stage(t)
       \/ Pipe_Record(t)
       \/ Pipe_Completed(t)
       \/ Pipe_Skip(t)
       \/ Pipe_Items(t)
       \/ Pipe_NextItem(t)
       \/ Pipe_ItemsChanged(t)
       \/ Pipe_ItemsEnd(t)
       \/ Pipe_Project(t)
       \/ Pipe_Return(t)

PipeSpec == InitAgent /\ [][PipeNext]_vars

(***************************************************************************)
(* Vocabulary of the properties.                                           *)
(***************************************************************************)
IsHungarian == algorithm = "hungarian"
IsGaleShapley == algorithm = "gale_shapley"
Finished == pc = "done"
Returned == pc = "done" /\ outcome = "returned"
NonEmptyCall == n_a > 0 /\ n_b > 0
LoopEnded == pc = "gs_loop" /\ free_proposers = <<>>
AIdSet == IdsOf(entities_a)
BIdSet == IdsOf(entities_b)
InUnitInterval(x) == RLeq(Zero, x) /\ RLeq(x, One)
Range(seq) == {seq[k] : k \in 1..Len(seq)}
EntityA(id) == entities_a[CHOOSE i \in 1..n_a : entities_a[i].id = id]
EntityB(id) == entities_b[CHOOSE j \in 1..n_b : entities_b[j].id = id]

\* The acceptors a proposer is engaged to.
EngagedTo(p) ==
    {engagements[k].acceptor : k \in {l \in 1..Len(engagements) : engagements[l].proposer = p}}

\* 0-based position of x in the preference list of id.
Rank(id, x) == Index(preferences[id], x)

\* One-to-one assignments of a-side rows to b-side columns (0: unassigned).
PartialAssignments ==
    { f \in [1..n_a -> 0..n_b] : \A i, j \in 1..n_a : (f[i] # 0 /\ f[i] = f[j]) => i = j }

\* The assignment uses only pairs whose aggregate score is >= min_score.
AboveThreshold(f) ==
    \A i \in 1..n_a : f[i] # 0 =>
        RLeq(criteria.min_score, H_raw_similarity(entities_a[i], entities_b[f[i]], criteria))

AssignmentScore(f) ==
    RSum([i \in 1..n_a |-> IF f[i] = 0 THEN Zero
                           ELSE H_raw_similarity(entities_a[i], entities_b[f[i]], criteria)], n_a)

TotalIsOptimal ==
    \A f \in PartialAssignments : AboveThreshold(f) => RLeq(AssignmentScore(f), total_score)

(***************************************************************************)
(* C1  HungarianMatcher.match on non-empty sides returns a result whose    *)
(* total_score is >= the total score of every one-to-one assignment that   *)
(* uses only pairs with aggregate score >= criteria.min_score.             *)
(* Violated: with n # m the solver raises and no result is returned.       *)
(***************************************************************************)
C1_HungarianOptimal ==
    (IsHungarian /\ Finished /\ NonEmptyCall) => (outcome = "returned" /\ TotalIsOptimal)

\* What does hold: every result HungarianMatcher.match returns is optimal.
H_ReturnedTotalIsOptimal ==
    (IsHungarian /\ Returned /\ NonEmptyCall) => TotalIsOptimal

(***************************************************************************)
(* C2  When the deferred-acceptance loop has ended (before the min-score   *)
(* filter) there is no blocking pair: no proposer p and acceptor a, not    *)
(* engaged to each other, with p unengaged or ranking a above its partner  *)
(* and a unengaged or ranking p above its partner.                         *)
(***************************************************************************)
Blocking(p, a) ==
    /\ ~(IsEngaged(engagements, a) /\ PartnerOf(engagements, a) = p)
    /\ \/ EngagedTo(p) = {}
       \/ \E cur \in EngagedTo(p) : Rank(p, a) < Rank(p, cur)
    /\ \/ ~IsEngaged(engagements, a)
       \/ Rank(a, p) < Rank(a, PartnerOf(engagements, a))

C2_NoBlockingPair ==
    LoopEnded => \A p \in AIdSet, a \in BIdSet : ~Blocking(p, a)

C2_Witness ==
    /\ LoopEnded
    /\ n_a >= 2 /\ n_b >= 2
    /\ Len(proposed) > Len(engagements)

(***************************************************************************)
(* C3  The deferred-acceptance loop ends (the free list becomes empty)     *)
(* after at most n*m proposals; in every step each proposer's index stays  *)
(* or increases, and no proposer proposes to the same acceptor twice.      *)
(***************************************************************************)
IndexOnlyAdvances ==
    pc = "gs_loop" =>
        /\ \A p \in DOMAIN proposer_index : proposer_index'[p] >= proposer_index[p]
        /\ proposed' # proposed => proposed'[Len(proposed')] \notin Range(proposed)

C3_Termination ==
    /\ [](Len(proposed) <= n_a * n_b)
    /\ [][IndexOnlyAdvances]_vars
    /\ (pc = "gs_loop") ~> LoopEnded

C3_Witness ==
    /\ LoopEnded
    /\ n_a >= 2
    /\ Len(proposed) = n_a * n_b

(***************************************************************************)
(* C4  Neither match ends in an error: every call returns a                *)
(* MatchingResult.                                                         *)
(* Violated: HungarianMatcher.match with n # m ends in ValueError.         *)
(***************************************************************************)
C4_NoError == Finished => outcome = "returned"

(***************************************************************************)
(* C5  With sides of different non-zero sizes HungarianMatcher.match       *)
(* returns a result with no padding slot paired and every surplus entity   *)
(* unmatched; with 3 a-side entities and 1 b-side entity it returns        *)
(* exactly one match, the best pair above threshold, and two a-side ids    *)
(* unmatched.                                                              *)
(* Violated: the padded matrix is infeasible and the call raises.          *)
(***************************************************************************)
BestPairScore ==
    CHOOSE s \in {H_calculate_similarity(entities_a[i], entities_b[j], criteria) :
                    i \in 1..n_a, j \in 1..n_b} :
        \A i \in 1..n_a, j \in 1..n_b :
            RLeq(H_calculate_similarity(entities_a[i], entities_b[j], criteria), s)

C5_RectangularPadding ==
    (IsHungarian /\ Finished /\ NonEmptyCall /\ n_a # n_b) =>
        /\ outcome = "returned"
        /\ Len(matches) <= (IF n_a < n_b THEN n_a ELSE n_b)
        /\ Len(unmatched_entities) >= Abs(n_a - n_b)
        /\ (n_a = 3 /\ n_b = 1 /\ RLt(Zero, BestPairScore)) =>
              /\ Len(matches) = 1
              /\ matches[1].score = BestPairScore
              /\ Len(unmatched_entities) = 2
              /\ Range(unmatched_entities) \subseteq AIdSet

(***************************************************************************)
(* C6  If entities_a or entities_b is empty, match of either matcher       *)
(* returns at once with matches = [], total_score = 0 and                  *)
(* unmatched_entities = the a-side ids followed by the b-side ids; nothing *)
(* is scored or solved.                                                    *)
(***************************************************************************)
C6_EmptyShortCircuit ==
    (pc # "idle" /\ (n_a = 0 \/ n_b = 0)) =>
        /\ Returned
        /\ matches = <<>>
        /\ total_score = Zero
        /\ Len(unmatched_entities) = n_a + n_b
        /\ \A i \in 1..n_a : unmatched_entities[i] = entities_a[i].id
        /\ \A j \in 1..n_b : unmatched_entities[n_a + j] = entities_b[j].id
        /\ cost_matrix = <<>> /\ assignment = <<>>
        /\ preferences = <<>> /\ engagements = <<>> /\ proposed = <<>>

C6_Witness ==
    /\ Returned
    /\ IsGaleShapley
    /\ n_a = 0 /\ n_b = 1
    /\ unmatched_entities = <<"b1">>

(***************************************************************************)
(* C7  A pair in which either entity lacks a required attribute is scored  *)
(* 0 by both scorers and is never reported as a Match, also with           *)
(* min_score = 0.                                                          *)
(* Violated: GaleShapleyMatcher keeps an engaged pair when                 *)
(* score >= min_score, and 0 >= 0.                                         *)
(***************************************************************************)
C7_RequiredGate ==
    /\ \A i \in 1..n_a, j \in 1..n_b :
          MissingRequired(criteria, entities_a[i], entities_b[j]) =>
              /\ H_calculate_similarity(entities_a[i], entities_b[j], criteria) = Zero
              /\ GS_calculate_similarity(entities_a[i], entities_b[j], criteria) = Zero
    /\ Returned =>
          \A k \in 1..Len(matches) :
              ~MissingRequired(criteria, EntityA(matches[k].entity_a_id),
                               EntityB(matches[k].entity_b_id))

(***************************************************************************)
(* C8  Matching is one-to-one: in a result no a-side and no b-side entity  *)
(* is in more than one Match; in every state of the Gale-Shapley loop each *)
(* acceptor is engaged to at most one proposer, each proposer to at most   *)
(* one acceptor, and no proposer is both in the free list and engaged.     *)
(***************************************************************************)
C8_OneToOne ==
    /\ Returned =>
          \A k, l \in 1..Len(matches) :
              (matches[k].entity_a_id = matches[l].entity_a_id
               \/ matches[k].entity_b_id = matches[l].entity_b_id) => k = l
    /\ pc = "gs_loop" =>
          /\ \A k, l \in 1..Len(engagements) :
                (engagements[k].acceptor = engagements[l].acceptor
                 \/ engagements[k].proposer = engagements[l].proposer) => k = l
          /\ \A i \in 1..Len(free_proposers) : EngagedTo(free_proposers[i]) = {}

C8_Witness ==
    /\ pc = "gs_loop"
    /\ Len(engagements) = 2
    /\ Len(free_proposers) = 1
    /\ Len(proposed) >= 3

(***************************************************************************)
(* C9  For inputs whose ids are unique within each side, every input       *)
(* entity is in exactly one of a Match or unmatched_entities:              *)
(* 2*|matches| + |unmatched_entities| = n + m, each Match pairing an       *)
(* a-side id with a b-side id.                                             *)
(* Violated: GaleShapleyMatcher keys its tables by id across both sides.   *)
(***************************************************************************)
C9_UnmatchedIsComplement ==
    Returned =>
        /\ 2 * Len(matches) + Len(unmatched_entities) = n_a + n_b
        /\ \A k \in 1..Len(matches) :
              matches[k].entity_a_id \in AIdSet /\ matches[k].entity_b_id \in BIdSet

\* What does hold when no id is shared between the sides.
UnmatchedIsComplementDisjointIds ==
    Returned =>
        /\ 2 * Len(matches) + Len(unmatched_entities) = n_a + n_b
        /\ \A id \in AIdSet \cup BIdSet :
              id \in Range(unmatched_entities) <=>
                  ~\E k \in 1..Len(matches) :
                      matches[k].entity_a_id = id \/ matches[k].entity_b_id = id

(***************************************************************************)
(* C10  With non-negative weights the aggregate score of every pair, by    *)
(* the scorer of either matcher, lies in [0, 1], and so does the score of  *)
(* every Match of a result.                                                *)
(***************************************************************************)
C10_ScoreInUnitInterval ==
    /\ \A i \in 1..n_a, j \in 1..n_b :
          /\ InUnitInterval(H_calculate_similarity(entities_a[i], entities_b[j], criteria))
          /\ InUnitInterval(GS_calculate_similarity(entities_a[i], entities_b[j], criteria))
          /\ InUnitInterval(GS_calculate_similarity(entities_b[j], entities_a[i], criteria))
    /\ \A k \in 1..Len(matches) : InUnitInterval(matches[k].score)

C10_Witness ==
    /\ Returned
    /\ Len(matches) >= 1
    /\ RLt(Zero, matches[1].score) /\ RLt(matches[1].score, One)


(***************************************************************************)
(* C11  After a Criteria is constructed from supplied weights: if their    *)
(* sum is positive every stored weight is the supplied weight divided by   *)
(* that sum and the stored weights sum to 1; if their sum is 0 the stored  *)
(* weights are the supplied ones, all 0.                                   *)
(***************************************************************************)
CriteriaConstructed ==
    /\ request # NoRequest
    /\ pc # "request"
    /\ response.detail # "ValueError: not a valid EntityType"

\* sum(self.weights.values()) of the supplied weights, a natural number.
SuppliedSum ==
    RSum([i \in 1..Len(AttrNames) |->
            IF AttrNames[i] \in request.keys THEN <<request.weights[AttrNames[i]], 1>>
            ELSE Zero], Len(AttrNames))[1]

StoredSum ==
    RSum([i \in 1..Len(AttrNames) |->
            IF AttrNames[i] \in criteria.keys THEN criteria.weights[AttrNames[i]]
            ELSE Zero], Len(AttrNames))

C11_WeightsNormalized ==
    CriteriaConstructed =>
        /\ criteria.keys = request.keys
        /\ SuppliedSum > 0 =>
              /\ StoredSum = One
              /\ \A a \in criteria.keys :
                    criteria.weights[a] = RDiv(<<request.weights[a], 1>>, SuppliedSum)
        /\ SuppliedSum = 0 =>
              \A a \in criteria.keys :
                  criteria.weights[a] = Zero /\ request.weights[a] = 0

C11_Witness ==
    /\ CriteriaConstructed
    /\ request.weights = Weights(1, 3)
    /\ criteria.weights["exp"] = <<1, 4>>
    /\ criteria.weights["skill"] = <<3, 4>>


(***************************************************************************)
(* C12  Two calls of match of the same matcher on the same entities_a,     *)
(* entities_b and criteria give the same result: the same matches (pairs   *)
(* and scores, in the same order), the same unmatched_entities and the     *)
(* same total_score (or the same error).  The program adds no choice of    *)
(* its own: the second call builds the same cost matrix or the same        *)
(* preference lists, reaches the same engagements and ends the same way,   *)
(* and whenever the library solver returns for the same matrix the         *)
(* assignment it returned before, the results are the same.  (When the     *)
(* solver returns another optimum of a tie the matches may differ; the     *)
(* program does not control that.)                                         *)
(***************************************************************************)
SecondCallEnded == first_call # NoCall /\ Finished

\* The solver has returned the assignment it returned in the call before.
SolverRepeated == assignment = first_call.assignment

\* What the second call computed on the way is what the first call computed.
SameTables ==
    /\ cost_matrix = first_call.cost_matrix
    /\ preferences = first_call.preferences
    /\ engagements = first_call.engagements

SameResult ==
    /\ matches = first_call.matches
    /\ unmatched_entities = first_call.unmatched_entities
    /\ total_score = first_call.total_score

H_Score(i, j) == H_raw_similarity(entities_a[i], entities_b[j], criteria)
GS_Score(i, j) == GS_calculate_similarity(entities_a[i], entities_b[j], criteria)

DominantPairing(Score(_, _), f) ==
    \A i \in 1..n_a :
        /\ \A j \in 1..n_b : j # f[i] => RLt(Score(i, j), Score(i, f[i]))
        /\ \A k \in 1..n_a : k # i => RLt(Score(k, f[i]), Score(i, f[i]))

DiagonallyDominant(Score(_, _)) ==
    /\ n_a = n_b
    /\ n_a >= 1
    /\ \E f \in Assignments(n_a) : DominantPairing(Score, f)

Pairs(ms) == {<<ms[k].entity_a_id, ms[k].entity_b_id>> : k \in 1..Len(ms)}

BothMatchersEnded == SecondCallEnded /\ algorithm # first_call.algorithm

C13_SameMatching ==
    (BothMatchersEnded /\ DiagonallyDominant(H_Score) /\ DiagonallyDominant(GS_Score)) =>
        /\ outcome = "returned"
        /\ first_call.outcome = "returned"
        /\ Pairs(matches) = Pairs(first_call.matches)


(***************************************************************************)
(* C14  With one entity X on the a side and one entity Y on the b side,    *)
(* a single weighted attribute (positive weight) that is numeric with the  *)
(* same value on both, no required attribute missing and min_score <= 1,   *)
(* both scorers give 1 and each matcher returns exactly the match (X, Y)   *)
(* with score 1, unmatched_entities = [] and total_score = 1.              *)
(***************************************************************************)
SymmetricObvious ==
    /\ n_a = 1 /\ n_b = 1
    /\ criteria.keys = {"exp"}
    /\ RLt(Zero, criteria.weights["exp"])
    /\ RLeq(criteria.min_score, One)
    /\ ~MissingRequired(criteria, entities_a[1], entities_b[1])
    /\ entities_a[1].attributes["exp"].t = "num"
    /\ entities_b[1].attributes["exp"] = entities_a[1].attributes["exp"]

C14_SymmetricObviousCase ==
    SymmetricObvious =>
        /\ H_calculate_similarity(entities_a[1], entities_b[1], criteria) = One
        /\ GS_calculate_similarity(entities_a[1], entities_b[1], criteria) = One
        /\ Finished =>
              /\ outcome = "returned"
              /\ matches = <<[entity_a_id |-> entities_a[1].id,
                              entity_b_id |-> entities_b[1].id, score |-> One]>>
              /\ unmatched_entities = <<>>
              /\ total_score = One

C14_Witness ==
    /\ SymmetricObvious
    /\ Returned
    /\ IsHungarian
    /\ criteria.min_score = Half
    /\ entities_a[1].attributes["exp"] = Num(5)
    /\ matches = <<[entity_a_id |-> "a1", entity_b_id |-> "b1", score |-> One]>>
    /\ total_score = One


(***************************************************************************)
(* C15  In HungarianMatcher every cost-matrix cell of a real pair is 0 or  *)
(* minus an aggregate score that is >= criteria.min_score.  A pair the     *)
(* solver assigned is reported as a Match only if its recovered score is   *)
(* > 0 and >= criteria.min_score, and it is reported whenever it is; the   *)
(* entities of every other assigned pair are in unmatched_entities.        *)
(***************************************************************************)
RecoveredScore(i) == RNeg(cost_matrix[i][assignment[i]])

\* Row i and its assigned column are both real entities.
RealPair(i) == i <= n_a /\ assignment[i] <= n_b

IsReported(i) ==
    \E k \in 1..Len(matches) :
        matches[k] = [entity_a_id |-> entities_a[i].id,
                      entity_b_id |-> entities_b[assignment[i]].id,
                      score |-> RecoveredScore(i)]

C15_HungarianThreshold ==
    /\ (IsHungarian /\ cost_matrix # <<>>) =>
          \A i \in 1..n_a, j \in 1..n_b :
              \/ cost_matrix[i][j] = Zero
              \/ /\ cost_matrix[i][j] = RNeg(H_raw_similarity(entities_a[i], entities_b[j], criteria))
                 /\ RLeq(criteria.min_score, RNeg(cost_matrix[i][j]))
    /\ (IsHungarian /\ Returned /\ NonEmptyCall) =>
          /\ \A k \in 1..Len(matches) :
                \E i \in 1..Len(cost_matrix) :
                    /\ RealPair(i)
                    /\ IsReported(i)
                    /\ matches[k].entity_a_id = entities_a[i].id
                    /\ matches[k].entity_b_id = entities_b[assignment[i]].id
          /\ \A i \in 1..Len(cost_matrix) :
                IF RealPair(i) /\ RLt(Zero, RecoveredScore(i))
                   /\ RLeq(criteria.min_score, RecoveredScore(i))
                THEN IsReported(i)
                ELSE /\ ~(RealPair(i) /\ IsReported(i))
                     /\ i <= n_a => entities_a[i].id \in Range(unmatched_entities)
                     /\ assignment[i] <= n_b =>
                           entities_b[assignment[i]].id \in Range(unmatched_entities)

C15_Witness ==
    /\ IsHungarian /\ Returned
    /\ n_a = 2 /\ n_b = 2
    /\ Len(matches) = 1
    /\ Len(unmatched_entities) = 2
    /\ criteria.min_score = Half


(***************************************************************************)
(* C16  In GaleShapleyMatcher.match an engaged pair of the ended loop is   *)
(* reported as a Match if and only if its recomputed aggregate score is    *)
(* >= criteria.min_score; both members of an engaged pair that fails the   *)
(* filter are in unmatched_entities, and total_score is the sum of the     *)
(* scores of the pairs that pass.                                          *)
(* Violated when an id is shared between the two sides: a member of an     *)
(* engaged pair that fails the filter is left out of unmatched_entities    *)
(* when the same id is in a reported Match.  Holds when no id is shared.   *)
(***************************************************************************)
\* The score match() recomputes for the k-th engaged pair.
EngagedScore(k) ==
    GS_calculate_similarity(entity_map[engagements[k].proposer],
                            entity_map[engagements[k].acceptor], criteria)

EngagedIsReported(k) ==
    \E l \in 1..Len(matches) :
        /\ matches[l].entity_a_id = engagements[k].proposer
        /\ matches[l].entity_b_id = engagements[k].acceptor

PassingScores ==
    [k \in 1..Len(engagements) |->
        IF RLeq(criteria.min_score, EngagedScore(k)) THEN EngagedScore(k) ELSE Zero]

C16_GaleShapleyFilter ==
    (IsGaleShapley /\ Returned /\ NonEmptyCall) =>
        /\ \A l \in 1..Len(matches) :
              \E k \in 1..Len(engagements) :
                  /\ matches[l].entity_a_id = engagements[k].proposer
                  /\ matches[l].entity_b_id = engagements[k].acceptor
                  /\ matches[l].score = EngagedScore(k)
        /\ \A k \in 1..Len(engagements) :
              /\ EngagedIsReported(k) <=> RLeq(criteria.min_score, EngagedScore(k))
              /\ ~EngagedIsReported(k) =>
                    /\ engagements[k].proposer \in Range(unmatched_entities)
                    /\ engagements[k].acceptor \in Range(unmatched_entities)
        /\ total_score = RSum(PassingScores, Len(engagements))


(***************************************************************************)
(* C17  A request to /api/match whose algorithm selector is neither        *)
(* 'hungarian' nor 'gale_shapley' (compared in lower case) is answered     *)
(* with the 'Unknown algorithm' client error, HTTP 400, and no matcher's   *)
(* match is called.  Requests whose entity types are valid are considered. *)
(* Violated: the HTTPException(400) is raised inside the handler's try     *)
(* block and `except Exception` replaces it by HTTP 500.                   *)
(***************************************************************************)
NoMatcherCalled ==
    /\ algorithm = "none"
    /\ outcome = "none"
    /\ cost_matrix = <<>>
    /\ preferences = <<>>
    /\ matches = <<>>

UnknownSelectorAnswered ==
    /\ pc = "api_done"
    /\ ValidEntityTypes(request.entities_a) /\ ValidEntityTypes(request.entities_b)
    /\ ~KnownSelector(request.algorithm)

C17_UnknownAlgorithmRejected ==
    UnknownSelectorAnswered =>
        /\ response.status_code = 400
        /\ NoMatcherCalled

\* What does hold: the request is answered with an error and without a call
\* of match.
UnknownAlgorithmNeverMatched ==
    (request # NoRequest /\ ~KnownSelector(request.algorithm)) =>
        /\ NoMatcherCalled
        /\ pc \in {"request", "api_select", "api_done"}
        /\ pc = "api_done" => response.status_code = 500


(***************************************************************************)
(* C18  The two matchers score by the same contract: for every pair of     *)
(* entities and every criteria the aggregate of                            *)
(* GaleShapleyMatcher._calculate_similarity equals the aggregate of        *)
(* HungarianMatcher._calculate_similarity before its min-score zeroing.    *)
(* Violated: the per-attribute comparisons differ (texts, lists, absent    *)
(* values, values of different types).                                     *)
(***************************************************************************)
C18_SameScoringContract ==
    \A i \in 1..n_a, j \in 1..n_b :
        GS_calculate_similarity(entities_a[i], entities_b[j], criteria)
            = H_raw_similarity(entities_a[i], entities_b[j], criteria)

\* What does hold: the scorers agree when every weighted attribute is a
\* number on both sides.
NumericWeighted(e) == \A a \in criteria.keys : e.attributes[a].t = "num"

ScorersAgreeOnNumbers ==
    \A i \in 1..n_a, j \in 1..n_b :
        (NumericWeighted(entities_a[i]) /\ NumericWeighted(entities_b[j])) =>
            GS_calculate_similarity(entities_a[i], entities_b[j], criteria)
                = H_raw_similarity(entities_a[i], entities_b[j], criteria)


(***************************************************************************)
(* C19  In every MatchingResult a matcher returns, total_score is the sum  *)
(* of the scores of its matches, and get_statistics reports total_matches  *)
(* = number of matches, unmatched_count = number of unmatched ids,         *)
(* total_score = total_score and average_score = the sum of the match      *)
(* scores divided by the number of matches, or 0 when there is no match.   *)
(***************************************************************************)
Statistics == get_statistics(matches, unmatched_entities, total_score)

C19_Statistics ==
    Returned =>
        /\ total_score = RSum([k \in 1..Len(matches) |-> matches[k].score], Len(matches))
        /\ Statistics.total_matches = Len(matches)
        /\ Statistics.unmatched_count = Len(unmatched_entities)
        /\ Statistics.total_score = total_score
        /\ Len(matches) = 0 => Statistics.average_score = Zero
        /\ Len(matches) > 0 =>
              RMul(Statistics.average_score, <<Len(matches), 1>>) = total_score

C19_Witness ==
    /\ Returned
    /\ Len(matches) = 2
    /\ Len(unmatched_entities) = 1
    /\ matches[1].score # matches[2].score
    /\ Statistics.average_score # Zero
    /\ Statistics.average_score # total_score


(***************************************************************************)
(* C20  For a returned MatchingResult and an identifier: the lookup        *)
(* get_match_for_entity returns no match exactly when the identifier is in *)
(* unmatched_entities or is no input identifier; otherwise it returns a    *)
(* Match of the result in which the entity with that identifier takes      *)
(* part (on the a side for an a-side entity, on the b side for a b-side    *)
(* entity).                                                                *)
(* Violated when an id is shared between the two sides: the lookup of the  *)
(* id returns the Match of the a-side entity although the b-side entity of *)
(* that id is in unmatched_entities or in another Match.  Holds when no id *)
(* is shared.                                                              *)
(***************************************************************************)
OtherId == "zz"

Lookup(id) == get_match_for_entity(matches, id)

C20_LookupByIdentifier ==
    Returned =>
        \A id \in AIdSet \cup BIdSet \cup {OtherId} :
            /\ Lookup(id) = NoMatch <=>
                  (id \in Range(unmatched_entities) \/ id \notin AIdSet \cup BIdSet)
            /\ Lookup(id) # NoMatch =>
                  /\ Lookup(id) \in Range(matches)
                  /\ id \in AIdSet => Lookup(id).entity_a_id = id
                  /\ id \in BIdSet => Lookup(id).entity_b_id = id

(***************************************************************************)
(* C21  In every step of the Gale-Shapley loop an engaged acceptor stays   *)
(* engaged, and its partner either stays or changes to a proposer that     *)
(* stands strictly earlier in the acceptor's own preference list.          *)
(***************************************************************************)
EngagedAcceptors(eng) == {eng[k].acceptor : k \in 1..Len(eng)}

AcceptorOnlyImproves ==
    pc = "gs_loop" =>
        \A a \in EngagedAcceptors(engagements) :
            /\ IsEngaged(engagements', a)
            /\ \/ PartnerOf(engagements', a) = PartnerOf(engagements, a)
               \/ Rank(a, PartnerOf(engagements', a)) < Rank(a, PartnerOf(engagements, a))

C21_AcceptorOnlyImproves == [][AcceptorOnlyImproves]_vars

\* An acceptor is engaged to a proposer that proposed to it after another
\* proposer it ranks lower: its first partner has been replaced.
C21_Witness ==
    /\ pc = "gs_loop"
    /\ \E k \in 1..Len(engagements), i, j \in 1..Len(proposed) :
          /\ i < j
          /\ proposed[j] = <<engagements[k].proposer, engagements[k].acceptor>>
          /\ proposed[i][2] = engagements[k].acceptor
          /\ proposed[i][1] # engagements[k].proposer
          /\ Rank(engagements[k].acceptor, engagements[k].proposer)
                < Rank(engagements[k].acceptor, proposed[i][1])

(***************************************************************************)
(* C22  In the Gale-Shapley loop a proposer is popped as exhausted only    *)
(* when it is free (first in the free list, engaged to nobody) and has     *)
(* proposed to every acceptor on its list; from then on it never proposes  *)
(* again, is never engaged, never re-enters the free list, and its id is   *)
(* in unmatched_entities of the result.                                    *)
(***************************************************************************)
Exhausted == Range(exhausted)

\* The step that pops a proposer as exhausted.
ExhaustedOnlyWhenDone ==
    (pc = "gs_loop" /\ exhausted' # exhausted) =>
        LET p == exhausted'[Len(exhausted')]
        IN  /\ free_proposers # <<>> /\ p = free_proposers[1]
            /\ EngagedTo(p) = {}
            /\ \A a \in Range(preferences[p]) : <<p, a>> \in Range(proposed)

\* No step makes a proposal of an exhausted proposer.
ExhaustedNeverProposes ==
    proposed' # proposed => proposed'[Len(proposed')][1] \notin Exhausted

ExhaustedStaysOut ==
    \A p \in Exhausted :
        /\ p \notin Range(free_proposers)
        /\ EngagedTo(p) = {}
        /\ (Returned /\ IsGaleShapley) => p \in Range(unmatched_entities)

C22_ExhaustedIsFinal ==
    /\ [][ExhaustedOnlyWhenDone /\ ExhaustedNeverProposes]_vars
    /\ []ExhaustedStaysOut

\* A result of a call in which a proposer was engaged, replaced and then
\* exhausted.
C22_Witness ==
    /\ Returned /\ IsGaleShapley
    /\ n_b >= 2
    /\ \E p \in Exhausted, k \in 1..Len(engagements) :
          /\ Index(proposed, <<p, engagements[k].acceptor>>)
                < Index(proposed, <<engagements[k].proposer, engagements[k].acceptor>>)
          /\ p \in Range(unmatched_entities)

(***************************************************************************)
(* C23  For every entity on either side, the preference list built by      *)
(* _build_preference_lists is a permutation of all identifiers of the      *)
(* opposite side, ordered by non-increasing raw similarity score, with     *)
(* equal-scored counterparts in the opposite side's input order.           *)
(* Violated when an id is shared between the two sides: the list stored    *)
(* for the a-side entity of that id is replaced by the list of the b-side  *)
(* entity, which ranks the a side.  Holds when no id is shared.            *)
(***************************************************************************)
\* 1-based position in ents of the entity with the given id.
PositionOf(ents, id) == CHOOSE k \in 1..Len(ents) : ents[k].id = id

\* list ranks all of others for the entity e: every id of others once, a
\* higher score first, equal scores in the order of others.
IsPreferenceListOf(list, e, others) ==
    /\ Len(list) = Len(others)
    /\ Range(list) = IdsOf(others)
    /\ \A p, q \in 1..Len(list) :
          p < q =>
             LET score_p == GS_calculate_similarity(e, others[PositionOf(others, list[p])], criteria)
                 score_q == GS_calculate_similarity(e, others[PositionOf(others, list[q])], criteria)
             IN  \/ RLt(score_q, score_p)
                 \/ score_p = score_q /\ PositionOf(others, list[p]) < PositionOf(others, list[q])

C23_PreferenceLists ==
    pc = "gs_loop" =>
        /\ \A i \in 1..n_a :
              IsPreferenceListOf(preferences[entities_a[i].id], entities_a[i], entities_b)
        /\ \A j \in 1..n_b :
              IsPreferenceListOf(preferences[entities_b[j].id], entities_b[j], entities_a)

(***************************************************************************)
(* C24  Two calls of GaleShapleyMatcher.match on the same entities and     *)
(* weights that differ only in criteria.min_score build the same           *)
(* preference lists and end their loops with the same engagements; each    *)
(* call reports exactly the engaged pairs whose score is >= its own        *)
(* min_score.                                                              *)
(***************************************************************************)
BothGaleShapley == first_call.algorithm = "gale_shapley" /\ IsGaleShapley

\* The engaged pairs of eng whose recomputed score is >= the threshold t.
PassingPairs(eng, t) ==
    { <<eng[k].proposer, eng[k].acceptor>> :
        k \in {l \in 1..Len(eng) :
                 RLeq(t, GS_calculate_similarity(EntityA(eng[l].proposer),
                                                 EntityB(eng[l].acceptor), criteria))} }

C24_ThresholdOnlyFilters ==
    /\ (BothGaleShapley /\ pc = "gs_loop") => preferences = first_call.preferences
    /\ (BothGaleShapley /\ (LoopEnded \/ Returned)) =>
          /\ criteria.min_score # first_call.min_score
          /\ engagements = first_call.engagements
    /\ (BothGaleShapley /\ Returned) =>
          /\ Pairs(matches) = PassingPairs(engagements, criteria.min_score)
          /\ Pairs(first_call.matches) = PassingPairs(engagements, first_call.min_score)

\* The second call has returned other matches than the first from the same
\* engagements, after a loop in which a partner was replaced.
C24_Witness ==
    /\ BothGaleShapley /\ Returned
    /\ n_a >= 2 /\ n_b >= 2
    /\ Len(proposed) > Len(engagements)
    /\ engagements = first_call.engagements
    /\ matches # first_call.matches
    /\ matches # <<>>

(***************************************************************************)
(* C25  In the scorer of either matcher a weighted attribute whose value   *)
(* is absent (missing or None) on either entity, also on both, gets        *)
(* attribute score 0.                                                      *)
(* Violated: GaleShapleyMatcher compares the two values with == first, so  *)
(* an attribute absent on both entities (None == None) scores 1.           *)
(***************************************************************************)
\* The pairs of values the scorers compare in this call: one weighted
\* attribute of an a-side and a b-side entity.
ComparedValues ==
    { <<get_attribute(entities_a[i], a), get_attribute(entities_b[j], a)>> :
        i \in 1..n_a, j \in 1..n_b, a \in criteria.keys }

Absent(v) == v = None

C25_AbsentScoresZero ==
    \A vv \in ComparedValues :
        (Absent(vv[1]) \/ Absent(vv[2])) =>
            /\ H_compare_attribute(vv[1], vv[2]) = Zero
            /\ GS_compare(vv[1], vv[2]) = Zero

\* What does hold: the Hungarian scorer gives 0 whenever a value is absent,
\* the Gale-Shapley scorer when exactly one of the two is.
AbsentScoresZeroButBothAbsent ==
    \A vv \in ComparedValues :
        /\ (Absent(vv[1]) \/ Absent(vv[2])) => H_compare_attribute(vv[1], vv[2]) = Zero
        /\ (Absent(vv[1]) # Absent(vv[2])) => GS_compare(vv[1], vv[2]) = Zero

(***************************************************************************)
(* C26  In the scorer of either matcher two numeric values a, b of a       *)
(* weighted attribute get the attribute score max(0, 1 - |a - b| / 100):   *)
(* 1 for equal values, 0 for a difference of 100 or more, and linear in    *)
(* the difference in between.                                              *)
(***************************************************************************)
BothNumeric(vv) == vv[1].t = "num" /\ vv[2].t = "num"

\* max(0, 1 - d / 100) for a difference d >= 0.
LinearScore(d) == IF d >= 100 THEN Zero ELSE RAdd(One, RNeg(Rat(d, 100)))

C26_NumericScore ==
    \A vv \in ComparedValues :
        BothNumeric(vv) =>
            LET d == Abs(vv[1].n - vv[2].n)
            IN  /\ H_compare_attribute(vv[1], vv[2]) = LinearScore(d)
                /\ GS_compare(vv[1], vv[2]) = LinearScore(d)
                /\ d = 0 => LinearScore(d) = One
                /\ d >= 100 => LinearScore(d) = Zero

\* A returned match whose score is that of one numeric attribute with a
\* difference of 40.
C26_Witness ==
    /\ Returned
    /\ criteria.keys = {"exp"}
    /\ Len(matches) = 1 /\ n_a = 1 /\ n_b = 1
    /\ BothNumeric(<<get_attribute(entities_a[1], "exp"), get_attribute(entities_b[1], "exp")>>)
    /\ Abs(entities_a[1].attributes["exp"].n - entities_b[1].attributes["exp"].n) = 40
    /\ matches[1].score = Rat(3, 5)

(***************************************************************************)
(* C27  In the scorer of either matcher two present values of a weighted   *)
(* attribute whose types differ (a number against a text, a text against   *)
(* a list) raise no error and get the exact-equality score: 1 if the       *)
(* values are equal and 0 otherwise.                                       *)
(* Violated: GaleShapleyMatcher scores two unequal values that are both    *)
(* truthy 0.5, whatever their types.                                       *)
(***************************************************************************)
MismatchedTypes(vv) == ~Absent(vv[1]) /\ ~Absent(vv[2]) /\ vv[1].t # vv[2].t

EqualityScore(vv) == IF vv[1] = vv[2] THEN One ELSE Zero

C27_MismatchedTypes ==
    \A vv \in ComparedValues :
        MismatchedTypes(vv) =>
            /\ H_compare_attribute(vv[1], vv[2]) = EqualityScore(vv)
            /\ GS_compare(vv[1], vv[2]) = EqualityScore(vv)

\* What does hold: the Hungarian scorer falls back to equality, and the
\* Gale-Shapley scorer gives 0 when one of the two values is falsy.
MismatchedTypesHungarian ==
    \A vv \in ComparedValues :
        MismatchedTypes(vv) =>
            /\ H_compare_attribute(vv[1], vv[2]) = EqualityScore(vv)
            /\ (~Truthy(vv[1]) \/ ~Truthy(vv[2])) => GS_compare(vv[1], vv[2]) = EqualityScore(vv)

(***************************************************************************)
(* C28  A call of match of either matcher leaves its arguments (the two    *)
(* entity lists with their entities, the Criteria) and the matcher's       *)
(* fields as they were, also while a second call with its own arguments    *)
(* is in progress on the same matcher; each of two interleaved calls       *)
(* returns the result it returns when it runs alone.                       *)
(***************************************************************************)
\* A step keeps the arguments of the running and of the suspended call, or
\* it is the scheduler's switch between the two.
ArgumentsKept ==
    other_call.pc # "none" =>
        \/ /\ inputs' = inputs
           /\ <<other_call'.entities_a, other_call'.entities_b, other_call'.criteria>>
                = <<other_call.entities_a, other_call.entities_b, other_call.criteria>>
        \/ /\ inputs' = <<other_call.entities_a, other_call.entities_b, other_call.criteria>>
           /\ <<other_call'.entities_a, other_call'.entities_b, other_call'.criteria>> = inputs

\* The call made again alone by the same matcher has ended.
MadeAgainAlone ==
    /\ first_call # NoCall
    /\ pc = "done"
    /\ algorithm = first_call.algorithm

\* The call made again alone ends as the interleaved call did, with its
\* results whenever the library solver returned the same assignment.
SameAsAlone ==
    MadeAgainAlone =>
        /\ outcome = first_call.outcome
        /\ SameTables
        /\ SolverRepeated => SameResult

Min(x, y) == IF x <= y THEN x ELSE y

EngagedProposers == {engagements[k].proposer : k \in 1..Len(engagements)}

C29_EngagedCount ==
    LoopEnded =>
        /\ Len(engagements) = Min(n_a, n_b)
        /\ n_a <= n_b => \A i \in 1..n_a : entities_a[i].id \in EngagedProposers
        /\ n_a >= n_b => \A j \in 1..n_b : IsEngaged(engagements, entities_b[j].id)
        /\ \A i \in 1..n_a :
              entities_a[i].id \notin EngagedProposers =>
                 \A j \in 1..n_b :
                    /\ IsEngaged(engagements, entities_b[j].id)
                    /\ Rank(entities_b[j].id, PartnerOf(engagements, entities_b[j].id))
                          < Rank(entities_b[j].id, entities_a[i].id)

(***************************************************************************)
(* C30  For calls of execute_pipeline in a row on one OrchestratorAgent,   *)
(* the summary a call returns reports only the stages that call handled:   *)
(* successful_stages, failed_stages, their counts, pipeline_status and     *)
(* stage_results hold no stage result recorded by an earlier call, also    *)
(* when the call stops early on a failure.                                 *)
(* Violated: self.stage_results is never cleared, so a call that stops     *)
(* early returns the earlier call's results of the stages it did not       *)
(* reach.                                                                  *)
(***************************************************************************)
\* The last call of t returned a summary and no other call ran during it.
CallReturned(t) == run[t].pc = "returned" /\ run[t].alone

\* The stages this call recorded with the given status.
HandledWith(t, status) == {h.stage : h \in {g \in run[t].handled : g.status = status}}

SummaryOfThisCall(t) ==
    /\ Range(summary[t].successful_stages) = HandledWith(t, "success")
    /\ Range(summary[t].failed_stages) = HandledWith(t, "failed")
    /\ summary[t].stages_successful = Cardinality(HandledWith(t, "success"))
    /\ summary[t].stages_failed = Cardinality(HandledWith(t, "failed"))
    /\ summary[t].pipeline_status =
          (IF HandledWith(t, "failed") = {} THEN "success" ELSE "failed")
    /\ Range(summary[t].stage_results) = run[t].handled

C30_SummaryOfThisCallOnly == \A t \in Calls : CallReturned(t) => SummaryOfThisCall(t)

\* What does hold: the summary of the first call on an agent, made alone.
FirstSummaryOfThisCallOnly == CallReturned(1) => SummaryOfThisCall(1)

====
